---- MODULE Spec2Model ----
(***************************************************************************)
(* Model of the fuxi-quant backtest engine (fuxi-quant-core).              *)
(*                                                                         *)
(* Decimal values are modelled as integers: sizes are counted in units of  *)
(* the smallest size, cash in units of the smallest cash amount, prices in *)
(* whole price units.  Decimal multiplication, addition and subtraction    *)
(* are exact on these values; Decimal division rounds (DecDiv).            *)
(* Times are minutes of the session clock.                                 *)
(* The strategy is an arbitrary program: inside every callback it may call *)
(* place_order, cancel_order and set_lever any number of times, and it may *)
(* return Ok or Err.                                                       *)
(***************************************************************************)
EXTENDS Integers, Sequences, FiniteSets, TLC

VARIABLES
    pc,                 \* position of Backtest::run (or of cross_order inside it)
    cfg,                \* constructor arguments kept by the engine
    cash,               \* context.cash
    symbols,            \* context.symbols: code -> [price, mark_price]
    positions,          \* context.positions: code -> [lever, long, short]
    orders,             \* context.orders (IndexMap): sequence of orders in map order
    trades,             \* Backtest.trades
    history_equities,   \* Backtest.history_equities
    bar_idx,            \* Backtest.bar_idx (0-based row of the bars tables)
    curr_time,          \* Backtest.curr_time
    queue,              \* cross_order: the cloned orders still to be matched
    cur,                \* cross_order: <<>> or <<the order whose callbacks run>>
    cbIdx,              \* run: index of the contract whose on_bar runs
    nextId,             \* the id generator: the next id id_new returns
    result,             \* the Result of the last API call of the running
                        \* callback: "ok" or "err"
    crossLog,           \* ids matched so far by the cross_order in progress
    rested,             \* ids an earlier cross_order processed without filling
    error,              \* why run returned Err ("none" while it has not)
    env,                \* the strategy's inputs: which requests it may pass
                        \* and how many ids the generator hands out
    script,             \* the strategy script handed to ScriptStrategy::new
    rt,                 \* the strategy: "native", or the state of its Runtime
    gas_max,            \* Runtime.gas_max
    gas_usage,          \* Runtime.gas_usage
    agent_cfg,          \* AgentConfig: ctx_len, enable_thinking, system prompt,
                        \* max_tool_rounds, and which chat implementation runs
    n_cur,              \* Agent.n_cur (ChatSession.n_past): tokens committed
    is_first_turn,      \* Agent.is_first_turn
    kv,                 \* the KV cache of sequence 0: cells [pos, kind]
    chat_pc,            \* position of the chat turn in progress
    turn,               \* locals of the chat turn in progress
    tool,               \* locals of chat_with_tools
    stream,             \* chat_with_tools: the round's response, the stream
                        \* guard and the events delivered to the caller
    parse,              \* the tool protocol: a text, the results formatted
                        \* into it and the calls parsed from it
    mcp,                \* McpManager and the position of its init
    wire                \* server name -> the requests written to its stdin

\* the script runtime (fuxi-quant-runtime)
rtVars == <<script, rt, gas_max, gas_usage>>

\* the conversational agent (fuxi-quant-agent)
chatVars == <<agent_cfg, n_cur, is_first_turn, kv, chat_pc, turn, tool>>

\* the tool protocol and the MCP client (fuxi-quant-agent)
toolVars == <<stream, parse, mcp, wire>>

vars == <<pc, cfg, cash, symbols, positions, orders, trades,
          history_equities, bar_idx, curr_time, queue, cur, cbIdx, nextId,
          result, crossLog, rested, error, env, rtVars, chatVars, toolVars>>

---------------------------------------------------------------------------
(* Bounds of the model *)

MaxOrders == 2          \* ids 1..MaxOrders are handed out

---------------------------------------------------------------------------
(* Program constants (Symbol::new, Position::new) *)

MinSize == 1            \* symbol.min_size, one size unit
MinCash == 1            \* symbol.min_cash, one cash unit
MaxLever == 10          \* symbol.max_lever
InitLever == 1          \* Position::new: lever

Codes == <<"A", "B">>
CodeSet == {Codes[i] : i \in 1..Len(Codes)}

None == <<>>
Some(x) == <<x>>
Unwrap(o) == o[1]

Min(a, b) == IF a <= b THEN a ELSE b
Max(a, b) == IF a >= b THEN a ELSE b

\* Decimal division: the quotient rounded to the nearest representable value,
\* ties to even.
DecDiv(a, b) ==
    LET n == IF a < 0 THEN 0 - a ELSE a
        q == n \div b
        r == n % b
        m == IF 2 * r > b \/ (2 * r = b /\ q % 2 = 1) THEN q + 1 ELSE q
    IN  IF a < 0 THEN 0 - m ELSE m

RECURSIVE SumSeq(_)
SumSeq(s) == IF s = <<>> THEN 0 ELSE Head(s) + SumSeq(Tail(s))

---------------------------------------------------------------------------
(* IndexMap *)

\* the position of key id in the map, 0 when absent
IndexOf(os, id) ==
    IF \E i \in 1..Len(os) : os[i].id = id
    THEN CHOOSE i \in 1..Len(os) : os[i].id = id
    ELSE 0

\* IndexMap::insert: replaces the value in place when the key exists, appends otherwise
MapInsert(os, o) ==
    IF IndexOf(os, o.id) = 0
    THEN Append(os, o)
    ELSE [os EXCEPT ![IndexOf(os, o.id)] = o]

\* IndexMap::swap_remove: the last entry takes the place of the removed one
SwapRemove_Keep(os, id) == os

\* IndexMap::swap_remove: the last entry takes the place of the removed one
SwapRemove(os, id) ==
    LET i == IndexOf(os, id)
        n == Len(os)
    IN  IF i = 0 THEN os
        ELSE IF i = n THEN SubSeq(os, 1, n - 1)
        ELSE SubSeq([os EXCEPT ![i] = os[n]], 1, n - 1)

---------------------------------------------------------------------------
(* Context *)

IsOpen(direction, side) ==
    \/ direction = "Long" /\ side = "Buy"
    \/ direction = "Short" /\ side = "Sell"

IsClose(direction, side) ==
    \/ direction = "Long" /\ side = "Sell"
    \/ direction = "Short" /\ side = "Buy"

IsLive(status) == status \in {"New", "Pending", "Canceling"}

calc_order_frozen_cash ==
    LET counted(o) == /\ IsOpen(o.direction, o.side)
                      /\ IsLive(o.status)
                      /\ o.size > o.filled
        amount(o) ==
            LET price == IF o.type_ = "Market"
                         THEN symbols[o.code].mark_price
                         ELSE Unwrap(o.price)
            IN  DecDiv(price * (o.size - o.filled), positions[o.code].lever)
        kept == SelectSeq(orders, counted)
    IN  SumSeq([i \in 1..Len(kept) |-> amount(kept[i])])

calc_pos_frozen_cash ==
    LET amount(c) ==
            DecDiv(symbols[c].mark_price * positions[c].long.size, positions[c].lever)
            + DecDiv(symbols[c].mark_price * positions[c].short.size, positions[c].lever)
    IN  SumSeq([i \in 1..Len(Codes) |-> amount(Codes[i])])

calc_frozen_cash == calc_order_frozen_cash + calc_pos_frozen_cash

calc_upl ==
    LET amount(c) ==
            (symbols[c].mark_price - positions[c].long.price) * positions[c].long.size
            + (positions[c].short.price - symbols[c].mark_price) * positions[c].short.size
    IN  SumSeq([i \in 1..Len(Codes) |-> amount(Codes[i])])

calc_equity == cash + calc_upl

calc_avail_cash == Max(calc_equity - calc_frozen_cash, 0)

Bucket(pos, direction) == IF direction = "Long" THEN pos.long ELSE pos.short

calc_pos_frozen_size(code, direction) ==
    LET counted(o) == /\ o.code = code
                      /\ IsClose(o.direction, o.side)
                      /\ o.direction = direction
                      /\ IsLive(o.status)
        amount(o) == o.size - o.filled
        kept == SelectSeq(orders, counted)
    IN  SumSeq([i \in 1..Len(kept) |-> amount(kept[i])])

calc_pos_avail_size(code, direction) ==
    Max(Bucket(positions[code], direction).size - calc_pos_frozen_size(code, direction), 0)

---------------------------------------------------------------------------
(* Inputs *)

\* Constructor arguments (Backtest::new): cash, fee rates, slippage, history
\* prefix H, and the window [start_time, end_time) in minutes of the session
\* clock (23:58 to 00:00, 00:58 to 01:00, and an empty window).  A fee rate or
\* slippage of 1 is 100%: the constructor accepts every non-negative slippage
\* and every fee rate.
Configs ==
    { [init_cash |-> 6, maker_fee_rate |-> 0, taker_fee_rate |-> 0, slippage |-> 0,
       history_bar_len |-> 1, start_time |-> 1438, end_time |-> 1440],
      [init_cash |-> 40, maker_fee_rate |-> 1, taker_fee_rate |-> 2, slippage |-> 1,
       history_bar_len |-> 0, start_time |-> 58, end_time |-> 60],
      [init_cash |-> 6, maker_fee_rate |-> 0, taker_fee_rate |-> 0, slippage |-> 0,
       history_bar_len |-> 0, start_time |-> 30, end_time |-> 30] }

\* The candle of contract c in row i (0-based) of its table; low <= open <= high.
BarTable == << [open |-> 3, high |-> 3, low |-> 2],
               [open |-> 2, high |-> 3, low |-> 1],
               [open |-> 1, high |-> 2, low |-> 1] >>
BarAt(c, i) == IF c = "A" THEN BarTable[(i % 3) + 1] ELSE BarTable[((i + 1) % 3) + 1]

\* bars::load: one row per minute of [start - H, end], both ends included
LoadBars(c, h, n) == [i \in 1..(h + n + 1) |-> BarAt(c, i - 1)]

Req(code, type_, direction, side, size, price) ==
    [code |-> code, type_ |-> type_, direction |-> direction, side |-> side,
     size |-> size, price |-> price]

\* place_order arguments the strategy may pass
WellFormed ==
    { Req("A", "Market", "Long", "Buy", 1, None),
      Req("A", "Market", "Long", "Buy", 2, None),
      Req("A", "Market", "Long", "Sell", 1, None),
      Req("A", "Limit", "Long", "Buy", 1, Some(1)),
      Req("A", "Limit", "Long", "Sell", 1, Some(3)),
      Req("A", "Limit", "Short", "Sell", 1, Some(2)),
      Req("A", "Market", "Short", "Buy", 1, None),
      Req("B", "Limit", "Long", "Buy", 1, Some(2)) }

Malformed ==
    { Req("A", "Market", "Long", "Buy", 1, Some(3)),
      Req("A", "Limit", "Long", "Buy", 1, None),
      Req("A", "Limit", "Long", "Buy", 0, Some(3)),
      Req("A", "Limit", "Short", "Sell", 1, Some(0)),
      Req("ZZ", "Market", "Long", "Buy", 1, None) }

\* set_lever arguments the strategy may pass
LeverInputs == {<<"A", 0>>, <<"A", 1>>, <<"A", 2>>, <<"A", 11>>}

Requests == WellFormed \cup Malformed

\* the requests of a strategy that only works the book with limit orders
BookRequests ==
    { Req("A", "Limit", "Long", "Buy", 1, Some(1)),
      Req("A", "Limit", "Long", "Buy", 1, Some(3)),
      Req("B", "Limit", "Long", "Buy", 1, Some(1)) }

RequestsOf(name) == IF name = "book" THEN BookRequests ELSE Requests

NoResult == "ok"

---------------------------------------------------------------------------
(* Construction *)

\* Symbol::new: price and mark_price start at 0
NewSymbol == [price |-> 0, mark_price |-> 0]

\* Position::new
NewPosition == [lever |-> InitLever,
                long |-> [price |-> 0, size |-> 0],
                short |-> [price |-> 0, size |-> 0]]

\* Backtest::new with Context::new
New(c) ==
        /\ cfg = c
        /\ pc = "new"
        /\ cash = c.init_cash
        /\ symbols = [x \in CodeSet |-> NewSymbol]
        /\ positions = [x \in CodeSet |-> NewPosition]
        /\ orders = <<>>
        /\ trades = <<>>
        /\ history_equities = <<>>
        /\ bar_idx = c.history_bar_len
        /\ curr_time = c.start_time
        /\ queue = <<>>
        /\ cur = <<>>
        /\ cbIdx = 0
        /\ nextId = 1
        /\ result = NoResult
        /\ crossLog = <<>>
        /\ rested = {}
        /\ error = "none"

\* the strategy is a native Strategy: no script runtime exists
NoRuntime ==
    /\ rt = "native"
    /\ script = [compiles |-> TRUE, fns |-> {}]
    /\ gas_max = 0
    /\ gas_usage = 0

NoTurn == [index |-> 0, before |-> 0, n_tokens |-> 0, with_system |-> FALSE,
           add_bos |-> FALSE, think_start |-> 0, think_end_pos |-> None,
           in_thinking |-> FALSE, n_answer |-> 0, stopped |-> "none"]

NoTool == [pc |-> "none", rounds |-> 0, generations |-> 0,
           error_reported |-> FALSE, full_response |-> ""]

\* chat_with_tools is not running
NoStream == [round_response |-> <<>>, pending_tokens |-> <<>>,
             in_tool_call |-> FALSE, had_tool_call |-> FALSE,
             current_message |-> <<>>, script |-> <<>>, tokens |-> <<>>,
             full_response |-> <<>>, in_thinking |-> FALSE, thinking |-> <<>>]

\* no text is being parsed
NoParse == [pc |-> "none", results |-> <<>>, output |-> <<>>, calls |-> <<>>]

\* McpManager::new: no connection, no tool
NoMcp == [pc |-> "new", config |-> {}, todo |-> {}, server |-> <<>>,
          server_tools |-> <<>>, connections |-> {}, tool_to_server |-> {},
          tools |-> <<>>, all_tools |-> <<>>, failed |-> {}, warned |-> {},
          returned |-> "none", calls |-> 0, last_call |-> <<>>]

\* no agent has been constructed
NoAgent ==
    /\ agent_cfg = [impl |-> "none", ctx_len |-> 0, enable_thinking |-> FALSE,
                    system_prompt |-> FALSE, max_tool_rounds |-> 0]
    /\ n_cur = 0
    /\ is_first_turn = TRUE
    /\ kv = {}
    /\ chat_pc = "none"
    /\ turn = NoTurn
    /\ tool = NoTool

\* no tool text is being handled and no McpManager is in use
NoTools ==
    /\ stream = NoStream
    /\ parse = NoParse
    /\ mcp = NoMcp
    /\ wire = <<>>

Init ==
    /\ \E c \in Configs : New(c)
    /\ env = [requests |-> "all", id_cap |-> MaxOrders]
    /\ NoRuntime
    /\ NoAgent
    /\ NoTools

---------------------------------------------------------------------------
(* The engine API, called by the strategy from inside a callback *)

CallbackPcs == {"on_start", "on_bar", "on_order", "on_position", "on_signal",
                "on_timer_secondly", "on_timer_minutely", "on_timer_hourly",
                "on_timer_daily", "on_stop"}

InCallback == pc \in CallbackPcs

\* The callbacks in which the modelled strategy calls the engine.  Every other
\* callback follows one of these with no engine step in between, so calls made
\* there reach no further engine state.
TradingPcs == {"on_start", "on_order", "on_signal"}

Trading == pc \in TradingPcs

\* place_order: actual_price
ActualPrice(req) ==
    IF req.type_ = "Market" THEN symbols[req.code].price ELSE Unwrap(req.price)

\* place_order with the cash check made strict
PlaceOrderOk_StrictCash(req) ==
    /\ req.code \in CodeSet
    /\ IF req.type_ = "Market" THEN req.price = None ELSE req.price # None
    /\ ActualPrice(req) > 0
    /\ req.size >= MinSize
    /\ ActualPrice(req) * req.size >= MinCash
    /\ IF IsOpen(req.direction, req.side)
       THEN calc_avail_cash > DecDiv(ActualPrice(req) * req.size, positions[req.code].lever)
       ELSE calc_pos_avail_size(req.code, req.direction) >= req.size

\* place_order without the closing-size check
PlaceOrderOk_NoSizeCheck(req) ==
    /\ req.code \in CodeSet
    /\ IF req.type_ = "Market" THEN req.price = None ELSE req.price # None
    /\ ActualPrice(req) > 0
    /\ req.size >= MinSize
    /\ ActualPrice(req) * req.size >= MinCash
    /\ IsOpen(req.direction, req.side) =>
          calc_avail_cash >= DecDiv(ActualPrice(req) * req.size, positions[req.code].lever)

\* place_order: the chain of checks; TRUE when the order is accepted
PlaceOrderOk(req) ==
    /\ req.code \in CodeSet
    /\ IF req.type_ = "Market" THEN req.price = None ELSE req.price # None
    /\ ActualPrice(req) > 0
    /\ req.size >= MinSize
    /\ ActualPrice(req) * req.size >= MinCash
    /\ IF IsOpen(req.direction, req.side)
       THEN calc_avail_cash >= DecDiv(ActualPrice(req) * req.size, positions[req.code].lever)
       ELSE calc_pos_avail_size(req.code, req.direction) >= req.size

NewOrder(req, id) ==
    [id |-> id, code |-> req.code, type_ |-> req.type_, direction |-> req.direction,
     side |-> req.side, price |-> req.price, size |-> req.size, filled |-> 0,
     status |-> "New", time |-> curr_time]

\* place_order that draws the id before it validates the request
PlaceOrder_IdFirst(req) ==
    /\ Trading
    /\ nextId <= env.id_cap
    /\ nextId' = nextId + 1
    /\ IF PlaceOrderOk(req)
       THEN /\ orders' = MapInsert(orders, NewOrder(req, nextId))
            /\ result' = "ok"
       ELSE /\ result' = "err"
            /\ UNCHANGED orders
    /\ UNCHANGED <<pc, cfg, cash, symbols, positions, trades, history_equities,
                   bar_idx, curr_time, queue, cur, cbIdx, crossLog, rested, error, env, rtVars, chatVars, toolVars>>

\* place_order that debits the margin of an accepted opening order from cash
PlaceOrder_Debits(req) ==
    /\ Trading
    /\ IF PlaceOrderOk(req)
       THEN /\ nextId <= env.id_cap
            /\ orders' = MapInsert(orders, NewOrder(req, nextId))
            /\ nextId' = nextId + 1
            /\ result' = "ok"
            /\ cash' = IF IsOpen(req.direction, req.side)
                       THEN cash - DecDiv(ActualPrice(req) * req.size,
                                          positions[req.code].lever)
                       ELSE cash
       ELSE /\ result' = "err"
            /\ UNCHANGED <<orders, nextId, cash>>
    /\ UNCHANGED <<pc, cfg, symbols, positions, trades, history_equities,
                   bar_idx, curr_time, queue, cur, cbIdx, crossLog, rested, error, env, rtVars, chatVars, toolVars>>

PlaceOrder(req) ==
    /\ Trading
    /\ IF PlaceOrderOk(req)
       THEN /\ nextId <= env.id_cap
            /\ orders' = MapInsert(orders, NewOrder(req, nextId))
            /\ nextId' = nextId + 1
            /\ result' = "ok"
       ELSE /\ result' = "err"
            /\ UNCHANGED <<orders, nextId>>
    /\ UNCHANGED <<pc, cfg, cash, symbols, positions, trades, history_equities,
                   bar_idx, curr_time, queue, cur, cbIdx, crossLog, rested, error, env, rtVars, chatVars, toolVars>>

\* cancel_order without the status check
CancelOrderOk_Any(id) == TRUE

\* cancel_order: Ok when the id is unknown, Err when the order is not live
CancelOrderOk(id) ==
    IndexOf(orders, id) = 0 \/ IsLive(orders[IndexOf(orders, id)].status)

CancelOrder(id) ==
    /\ Trading
    /\ IF IndexOf(orders, id) # 0 /\ CancelOrderOk(id)
       THEN orders' = [orders EXCEPT ![IndexOf(orders, id)].status = "Canceling"]
       ELSE UNCHANGED orders
    /\ result' = IF CancelOrderOk(id) THEN "ok" ELSE "err"
    /\ UNCHANGED <<pc, cfg, cash, symbols, positions, trades, history_equities,
                   bar_idx, curr_time, queue, cur, cbIdx, nextId, crossLog, rested,
                   error, env, rtVars, chatVars, toolVars>>

\* set_lever: the contract is configured and 1 <= lever <= max_lever
SetLeverOk(code, lever) == code \in CodeSet /\ lever >= 1 /\ lever <= MaxLever

SetLever(code, lever) ==
    /\ Trading
    /\ IF SetLeverOk(code, lever)
       THEN positions' = [positions EXCEPT ![code].lever = lever]
       ELSE UNCHANGED positions
    /\ result' = IF SetLeverOk(code, lever) THEN "ok" ELSE "err"
    /\ UNCHANGED <<pc, cfg, cash, symbols, orders, trades, history_equities,
                   bar_idx, curr_time, queue, cur, cbIdx, nextId, crossLog, rested,
                   error, env, rtVars, chatVars, toolVars>>

---------------------------------------------------------------------------
(* cross_order *)

\* context.bars: loaded once by the constructor, immutable thereafter
bars == [c \in CodeSet |->
            LoadBars(c, cfg.history_bar_len, cfg.end_time - cfg.start_time)]

\* df_f64(bars, col, bar_idx): the row exists
RowLoaded(c) == bar_idx + 1 <= Len(bars[c])
Row(c) == bars[c][bar_idx + 1]

\* The live orders cloned and grouped by contract: contracts in the order of
\* their first live order, each contract's orders in map order.
RECURSIVE GroupByCode(_)
GroupByCode(s) ==
    IF s = <<>> THEN <<>>
    ELSE LET same(o) == o.code = Head(s).code
             other(o) == o.code # Head(s).code
         IN  SelectSeq(s, same) \o GroupByCode(SelectSeq(s, other))

OrdersByCode ==
    LET live(o) == IsLive(o.status) IN GroupByCode(SelectSeq(orders, live))

\* Match without price improvement: a limit order always fills at its limit
Match_AtLimit(o, bar) ==
    IF o.type_ = "Market"
    THEN [can_fill |-> TRUE,
          fill_price |-> IF o.side = "Buy"
                         THEN bar.open * (1 + cfg.slippage)
                         ELSE bar.open * (1 - cfg.slippage)]
    ELSE LET limit_price == Unwrap(o.price)
         IN  IF o.side = "Buy"
             THEN [can_fill |-> limit_price >= bar.low, fill_price |-> limit_price]
             ELSE [can_fill |-> limit_price <= bar.high, fill_price |-> limit_price]

\* (can_fill, fill_price) of an order against the candle
Match(o, bar) ==
    IF o.type_ = "Market"
    THEN [can_fill |-> TRUE,
          fill_price |-> IF o.side = "Buy"
                         THEN bar.open * (1 + cfg.slippage)
                         ELSE bar.open * (1 - cfg.slippage)]
    ELSE LET limit_price == Unwrap(o.price)
         IN  IF o.side = "Buy"
             THEN IF limit_price >= bar.open
                  THEN [can_fill |-> TRUE, fill_price |-> bar.open]
                  ELSE IF limit_price >= bar.low
                  THEN [can_fill |-> TRUE, fill_price |-> limit_price]
                  ELSE [can_fill |-> FALSE, fill_price |-> 0]
             ELSE IF limit_price <= bar.open
                  THEN [can_fill |-> TRUE, fill_price |-> bar.open]
                  ELSE IF limit_price <= bar.high
                  THEN [can_fill |-> TRUE, fill_price |-> limit_price]
                  ELSE [can_fill |-> FALSE, fill_price |-> 0]

\* the fee rate of a fill, from the status the cloned order had
FeeRate(orig_status) ==
    IF orig_status = "Pending" THEN cfg.maker_fee_rate ELSE cfg.taker_fee_rate

\* the entry price overwritten by the last fill instead of averaged
OpenPosPrice_Last(old_pos_price, old_pos_size, fill_price, size) == fill_price

\* the entry price of a bucket after an opening fill
OpenPosPrice(old_pos_price, old_pos_size, fill_price, size) ==
    IF old_pos_size > 0
    THEN DecDiv(old_pos_price * old_pos_size + fill_price * size, old_pos_size + size)
    ELSE fill_price

\* the realized profit of a closing fill
ClosingRpl(direction, old_pos_price, fill_price, size, fee_cash) ==
    IF direction = "Long"
    THEN (fill_price - old_pos_price) * size - fee_cash
    ELSE (old_pos_price - fill_price) * size - fee_cash

SetBucket(pos, direction, b) ==
    IF direction = "Long" THEN [pos EXCEPT !.long = b] ELSE [pos EXCEPT !.short = b]

\* The fill branch up to the first callback: position, cash, trade, and the
\* filled clone written back into the map.
CrossFill ==
    /\ pc = "cross"
    /\ queue # <<>>
    /\ LET o == Head(queue) IN
       /\ RowLoaded(o.code)
       /\ Match(o, Row(o.code)).can_fill
       /\ LET fill_price == Match(o, Row(o.code)).fill_price
              old == Bucket(positions[o.code], o.direction)
              fee_cash == (fill_price * o.size) * FeeRate(o.status)
              is_open == IsOpen(o.direction, o.side)
              rpl == IF is_open THEN 0
                     ELSE ClosingRpl(o.direction, old.price, fill_price, o.size, fee_cash)
              new == IF is_open
                     THEN [price |-> OpenPosPrice(old.price, old.size, fill_price, o.size),
                           size |-> old.size + o.size]
                     ELSE [price |-> old.price, size |-> old.size - o.size]
          IN  /\ cash' = IF is_open THEN cash - fee_cash ELSE cash + rpl
              /\ positions' = [positions EXCEPT
                                 ![o.code] = SetBucket(@, o.direction, new)]
              /\ trades' = Append(trades,
                     [id |-> o.id, time |-> curr_time, code |-> o.code,
                      direction |-> o.direction, side |-> o.side, price |-> fill_price,
                      size |-> o.size, fee |-> fee_cash, rpl |-> rpl])
              /\ orders' = MapInsert(orders,
                     [o EXCEPT !.filled = o.size, !.status = "Filled"])
              /\ cur' = <<[id |-> o.id, code |-> o.code, kind |-> "fill",
                           orig_status |-> o.status]>>
       /\ crossLog' = Append(crossLog, o.id)
    /\ queue' = Tail(queue)
    /\ pc' = "on_order"
    /\ result' = NoResult
    /\ UNCHANGED <<cfg, symbols, history_equities, bar_idx, curr_time, cbIdx,
                   nextId, rested, error, env, rtVars, chatVars, toolVars>>

\* the no-fill branch that never rests a New order
NoFillStatus_KeepNew(status) ==
    IF status = "Canceling" THEN "Canceled" ELSE status

\* the status the no-fill branch gives an order of the given status
NoFillStatus(status) ==
    CASE status = "Canceling" -> "Canceled"
      [] status = "New" -> "Pending"
      [] OTHER -> status

\* The no-fill branch: the status of the order in the map decides.
CrossNoFill ==
    /\ pc = "cross"
    /\ queue # <<>>
    /\ LET o == Head(queue)
           i == IndexOf(orders, o.id)
       IN
       /\ RowLoaded(o.code)
       /\ ~Match(o, Row(o.code)).can_fill
       /\ orders' = [orders EXCEPT ![i].status = NoFillStatus(orders[i].status)]
       /\ IF orders[i].status = "Canceling"
          THEN /\ cur' = <<[id |-> o.id, code |-> o.code, kind |-> "cancel",
                            orig_status |-> o.status]>>
               /\ pc' = "on_order"
               /\ UNCHANGED rested
          ELSE /\ rested' = rested \cup {o.id}
               /\ UNCHANGED <<cur, pc>>
       /\ crossLog' = Append(crossLog, o.id)
    /\ queue' = Tail(queue)
    /\ result' = NoResult
    /\ UNCHANGED <<cfg, cash, symbols, positions, trades, history_equities,
                   bar_idx, curr_time, cbIdx, nextId, error, env, rtVars, chatVars, toolVars>>

\* on_order of a filled order returned Ok: on_position is called
OnOrderFilledReturn ==
    /\ pc = "on_order"
    /\ cur[1].kind = "fill"
    /\ pc' = "on_position"
    /\ result' = NoResult
    /\ UNCHANGED <<cfg, cash, symbols, positions, orders, trades,
                   history_equities, bar_idx, curr_time, queue, cur, cbIdx, nextId,
                   crossLog, rested, error, env, rtVars, chatVars, toolVars>>

\* on_position returned Ok: the filled order is removed
OnPositionReturn ==
    /\ pc = "on_position"
    /\ orders' = SwapRemove(orders, cur[1].id)
    /\ cur' = <<>>
    /\ pc' = "cross"
    /\ result' = NoResult
    /\ UNCHANGED <<cfg, cash, symbols, positions, trades, history_equities,
                   bar_idx, curr_time, queue, cbIdx, nextId, crossLog, rested, error, env, rtVars, chatVars, toolVars>>

\* on_order of a canceled order returned Ok: the order is removed
OnOrderCanceledReturn ==
    /\ pc = "on_order"
    /\ cur[1].kind = "cancel"
    /\ orders' = SwapRemove(orders, cur[1].id)
    /\ cur' = <<>>
    /\ pc' = "cross"
    /\ result' = NoResult
    /\ UNCHANGED <<cfg, cash, symbols, positions, trades, history_equities,
                   bar_idx, curr_time, queue, cbIdx, nextId, crossLog, rested, error, env, rtVars, chatVars, toolVars>>

---------------------------------------------------------------------------
(* run *)

AllRowsLoaded == \A c \in CodeSet : RowLoaded(c)

\* mark_price and price of every contract set to the open of row bar_idx
Refreshed == [c \in CodeSet |-> [price |-> Row(c).open, mark_price |-> Row(c).open]]

\* calc_equity with the refreshed or current symbols, as pushed to history_equities
EquityWith(syms, c, ps) ==
    LET amount(x) ==
            (syms[x].mark_price - ps[x].long.price) * ps[x].long.size
            + (ps[x].short.price - syms[x].mark_price) * ps[x].short.size
    IN  c + SumSeq([i \in 1..Len(Codes) |-> amount(Codes[i])])

\* run, before the first callback: prices, the first equity entry, then on_start
Prime ==
    /\ pc = "new"
    /\ IF AllRowsLoaded
       THEN /\ symbols' = Refreshed
            /\ history_equities' =
                   Append(history_equities, EquityWith(Refreshed, cash, positions))
            /\ pc' = "on_start"
            /\ UNCHANGED error
       ELSE /\ pc' = "aborted"
            /\ error' = "bars"
            /\ UNCHANGED <<symbols, history_equities>>
    /\ UNCHANGED <<cfg, cash, positions, orders, trades, bar_idx, curr_time,
                   queue, cur, cbIdx, nextId, result, crossLog, rested, env, rtVars, chatVars, toolVars>>

OnStartReturn ==
    /\ pc = "on_start"
    /\ pc' = "on_bar"
    /\ cbIdx' = 1
    /\ result' = NoResult
    /\ UNCHANGED <<cfg, cash, symbols, positions, orders, trades,
                   history_equities, bar_idx, curr_time, queue, cur, nextId, crossLog,
                   rested, error, env, rtVars, chatVars, toolVars>>

\* on_bar called for the first contract only
OnBarReturn_First ==
    /\ pc = "on_bar"
    /\ cbIdx' = 0
    /\ pc' = "loop"
    /\ result' = NoResult
    /\ UNCHANGED <<cfg, cash, symbols, positions, orders, trades,
                   history_equities, bar_idx, curr_time, queue, cur, nextId, crossLog,
                   rested, error, env, rtVars, chatVars, toolVars>>

\* on_bar(codes[cbIdx]) returned Ok: the next contract, or the loop
OnBarReturn ==
    /\ pc = "on_bar"
    /\ IF cbIdx < Len(Codes)
       THEN /\ cbIdx' = cbIdx + 1
            /\ UNCHANGED pc
       ELSE /\ cbIdx' = 0
            /\ pc' = "loop"
    /\ result' = NoResult
    /\ UNCHANGED <<cfg, cash, symbols, positions, orders, trades,
                   history_equities, bar_idx, curr_time, queue, cur, nextId, crossLog,
                   rested, error, env, rtVars, chatVars, toolVars>>

\* a loop that also runs the minute that starts at end_time
LoopCond_Inclusive == curr_time <= cfg.end_time

\* while self.curr_time < self.end_time
LoopCond == curr_time < cfg.end_time

\* One iteration begins: prices are refreshed and cross_order clones the live orders.
StepBegin ==
    /\ pc = "loop"
    /\ LoopCond
    /\ IF AllRowsLoaded
       THEN /\ symbols' = Refreshed
            /\ queue' = OrdersByCode
            /\ crossLog' = <<>>
            /\ pc' = "cross"
            /\ UNCHANGED error
       ELSE /\ pc' = "aborted"
            /\ error' = "bars"
            /\ UNCHANGED <<symbols, queue, crossLog>>
    /\ UNCHANGED <<cfg, cash, positions, orders, trades, history_equities,
                   bar_idx, curr_time, cur, cbIdx, nextId, result, rested, env, rtVars, chatVars, toolVars>>

\* cross_order returned Ok: the clock advances, equity is recorded, on_signal is called
Advance ==
    /\ pc = "cross"
    /\ queue = <<>>
    /\ bar_idx' = bar_idx + 1
    /\ curr_time' = curr_time + 1
    /\ history_equities' = Append(history_equities, calc_equity)
    /\ pc' = "on_signal"
    /\ UNCHANGED <<cfg, cash, symbols, positions, orders, trades, queue, cur,
                   cbIdx, nextId, result, crossLog, rested, error, env, rtVars, chatVars, toolVars>>

Minute(t) == t % 60
Hour(t) == (t \div 60) % 24

OnSignalReturn ==
    /\ pc = "on_signal"
    /\ pc' = "on_timer_secondly"
    /\ result' = NoResult
    /\ UNCHANGED <<cfg, cash, symbols, positions, orders, trades,
                   history_equities, bar_idx, curr_time, queue, cur, cbIdx, nextId,
                   crossLog, rested, error, env, rtVars, chatVars, toolVars>>

\* a fan-out that fires Daily after every Hourly
AfterTimer_DailyEveryHour(timer) ==
    CASE timer = "on_timer_secondly" -> "on_timer_minutely"
      [] timer = "on_timer_minutely" ->
            IF Minute(curr_time) = 0 THEN "on_timer_hourly" ELSE "loop"
      [] timer = "on_timer_hourly" -> "on_timer_daily"
      [] timer = "on_timer_daily" -> "loop"

\* the timer fan-out that follows the callback the strategy just returned from
AfterTimer(timer) ==
    CASE timer = "on_timer_secondly" -> "on_timer_minutely"
      [] timer = "on_timer_minutely" ->
            IF Minute(curr_time) = 0 THEN "on_timer_hourly" ELSE "loop"
      [] timer = "on_timer_hourly" ->
            IF Minute(curr_time) = 0 /\ Hour(curr_time) = 0
            THEN "on_timer_daily" ELSE "loop"
      [] timer = "on_timer_daily" -> "loop"

OnTimerReturn ==
    /\ pc \in {"on_timer_secondly", "on_timer_minutely", "on_timer_hourly",
               "on_timer_daily"}
    /\ pc' = AfterTimer(pc)
    /\ result' = NoResult
    /\ UNCHANGED <<cfg, cash, symbols, positions, orders, trades,
                   history_equities, bar_idx, curr_time, queue, cur, cbIdx, nextId,
                   crossLog, rested, error, env, rtVars, chatVars, toolVars>>

\* the loop condition fails: on_stop is called
Finish ==
    /\ pc = "loop"
    /\ ~LoopCond
    /\ pc' = "on_stop"
    /\ UNCHANGED <<cfg, cash, symbols, positions, orders, trades,
                   history_equities, bar_idx, curr_time, queue, cur, cbIdx, nextId,
                   result, crossLog, rested, error, env, rtVars, chatVars, toolVars>>

OnStopReturn ==
    /\ pc = "on_stop"
    /\ pc' = "done"
    /\ result' = NoResult
    /\ UNCHANGED <<cfg, cash, symbols, positions, orders, trades,
                   history_equities, bar_idx, curr_time, queue, cur, cbIdx, nextId,
                   crossLog, rested, error, env, rtVars, chatVars, toolVars>>

\* A callback returned Err: `?` makes run (and cross_order) return it at once.
CallbackFail ==
    /\ InCallback
    /\ pc' = "aborted"
    /\ error' = "callback"
    /\ result' = NoResult
    /\ UNCHANGED <<cfg, cash, symbols, positions, orders, trades,
                   history_equities, bar_idx, curr_time, queue, cur, cbIdx, nextId,
                   crossLog, rested, env, rtVars, chatVars, toolVars>>

---------------------------------------------------------------------------

Next ==
    \/ Prime
    \/ OnStartReturn
    \/ OnBarReturn
    \/ StepBegin
    \/ CrossFill
    \/ CrossNoFill
    \/ OnOrderFilledReturn
    \/ OnPositionReturn
    \/ OnOrderCanceledReturn
    \/ Advance
    \/ OnSignalReturn
    \/ OnTimerReturn
    \/ Finish
    \/ OnStopReturn
    \/ CallbackFail
    \/ \E req \in RequestsOf(env.requests) : PlaceOrder(req)
    \/ \E id \in 1..env.id_cap : CancelOrder(id)
    \/ \E a \in LeverInputs : SetLever(a[1], a[2])

Spec == Init /\ [][Next]_vars

\* A strategy that only works the book with limit orders, one order more.
InitBook ==
    /\ \E c \in Configs : New(c)
    /\ env = [requests |-> "book", id_cap |-> MaxOrders + 1]
    /\ NoRuntime
    /\ NoAgent
    /\ NoTools

SpecBook == InitBook /\ [][Next]_vars

\* The steps of run itself and the returns of the callbacks, Ok or Err.
EngineStep ==
    \/ Prime
    \/ OnStartReturn
    \/ OnBarReturn
    \/ StepBegin
    \/ CrossFill
    \/ CrossNoFill
    \/ OnOrderFilledReturn
    \/ OnPositionReturn
    \/ OnOrderCanceledReturn
    \/ Advance
    \/ OnSignalReturn
    \/ OnTimerReturn
    \/ Finish
    \/ OnStopReturn
    \/ CallbackFail

\* The same strategy with one order less: whether run ends does not depend on
\* the size of the book.
InitFair ==
    /\ \E c \in Configs : New(c)
    /\ env = [requests |-> "all", id_cap |-> MaxOrders - 1]
    /\ NoRuntime
    /\ NoAgent
    /\ NoTools

\* run is sequential code and every callback returns: the engine's next step
\* is eventually taken.
SpecFair == InitFair /\ [][Next]_vars /\ WF_vars(EngineStep)

---------------------------------------------------------------------------
(* The script runtime: ScriptStrategy, Runtime *)

MaxGas == 2             \* gas_max is drawn from 0..MaxGas

\* the script functions the Strategy implementation of ScriptStrategy calls
ScriptFns == {"on_start", "on_bar", "on_signal", "on_timer", "on_order",
              "on_position", "on_stop"}

\* the function a callback position calls: every timer calls on_timer
FnOf(p) ==
    IF p \in {"on_timer_secondly", "on_timer_minutely", "on_timer_hourly",
              "on_timer_daily"}
    THEN "on_timer" ELSE p

\* Scripts: whether the source compiles, and the functions it defines.
Scripts ==
    { [compiles |-> TRUE, fns |-> ScriptFns],
      [compiles |-> TRUE, fns |-> ScriptFns \ {"on_timer"}],
      [compiles |-> TRUE, fns |-> ScriptFns \ {"on_position"}],
      [compiles |-> FALSE, fns |-> {}] }

\* Runtime::new: engine.compile / compile_file is the only check
Compiled(sc) == sc.compiles

\* ScriptStrategy::new -> Runtime::new
RuntimeNew ==
    /\ rt = "unloaded"
    /\ rt' = IF Compiled(script) THEN "loaded" ELSE "rejected"
    /\ gas_usage' = 0
    /\ UNCHANGED <<pc, cfg, cash, symbols, positions, orders, trades,
                   history_equities, bar_idx, curr_time, queue, cur, cbIdx, nextId,
                   result, crossLog, rested, error, env, script, gas_max, chatVars, toolVars>>

\* the engine exists: Backtest::new was given the loaded strategy
Loaded == rt = "loaded"

\* call_fn found the function of the running callback: the script is executing
ScriptRunning == Loaded /\ InCallback /\ FnOf(pc) \in script.fns

\* a meter that aborts as soon as the counter has reached the limit
GasExceeded_AtLimit(usage, limit) == usage >= limit

\* on_progress: usage > gas_max
GasExceeded(usage, limit) == usage > limit

\* One VM progress tick of the running callback (the on_progress closure).
OnProgress ==
    /\ ScriptRunning
    /\ IF gas_max = 0
       THEN UNCHANGED <<gas_usage, pc, error>>
       ELSE IF GasExceeded(gas_usage, gas_max)
            THEN /\ pc' = "aborted"
                 /\ error' = "gas usage exceeds the limit"
                 /\ UNCHANGED gas_usage
            ELSE /\ gas_usage' = gas_usage + 1
                 /\ UNCHANGED <<pc, error>>
    /\ UNCHANGED <<cfg, cash, symbols, positions, orders, trades,
                   history_equities, bar_idx, curr_time, queue, cur, cbIdx, nextId,
                   result, crossLog, rested, env, script, rt, gas_max, chatVars, toolVars>>

\* ScriptStrategy::call: call_fn does not find the function in the AST
CallMissing ==
    /\ Loaded
    /\ InCallback
    /\ FnOf(pc) \notin script.fns
    /\ pc' = "aborted"
    /\ error' = "function not found"
    /\ UNCHANGED <<cfg, cash, symbols, positions, orders, trades,
                   history_equities, bar_idx, curr_time, queue, cur, cbIdx, nextId,
                   result, crossLog, rested, env, rtVars, chatVars, toolVars>>

\* run with a ScriptStrategy: the engine's own steps need the loaded strategy,
\* and a callback returns, calls the engine or fails only while its function runs.
NextScript ==
    \/ RuntimeNew
    \/ OnProgress
    \/ CallMissing
    \/ Loaded /\ Prime
    \/ Loaded /\ StepBegin
    \/ Loaded /\ CrossFill
    \/ Loaded /\ CrossNoFill
    \/ Loaded /\ Advance
    \/ Loaded /\ Finish
    \/ ScriptRunning /\ OnStartReturn
    \/ ScriptRunning /\ OnBarReturn
    \/ ScriptRunning /\ OnOrderFilledReturn
    \/ ScriptRunning /\ OnPositionReturn
    \/ ScriptRunning /\ OnOrderCanceledReturn
    \/ ScriptRunning /\ OnSignalReturn
    \/ ScriptRunning /\ OnTimerReturn
    \/ ScriptRunning /\ OnStopReturn
    \/ ScriptRunning /\ CallbackFail
    \/ ScriptRunning /\ \E req \in RequestsOf(env.requests) : PlaceOrder(req)
    \/ ScriptRunning /\ \E id \in 1..env.id_cap : CancelOrder(id)

InitScript ==
    /\ \E c \in Configs : New(c)
    /\ env = [requests |-> "book", id_cap |-> MaxOrders - 1]
    /\ rt = "unloaded"
    /\ script \in Scripts
    /\ gas_max \in 0..MaxGas
    /\ gas_usage = 0
    /\ NoAgent
    /\ NoTools

SpecScript == InitScript /\ [][NextScript]_vars

---------------------------------------------------------------------------
(* The conversational agent: Agent (agent.rs), ChatSession (model.rs) and   *)
(* Qwen3Agent (qwen3.rs).  A token is modelled by its kind: "bos", "sys"    *)
(* (the system block), "user" (the user block), "hdr" (the assistant header *)
(* with its think prefix), "think", "think_end" (the token that completes   *)
(* </think>), "answer", and "end" (the tokens of "<|im_end|>\n").           *)

MaxCtx == 9             \* ctx_len: the KV cache holds positions 0..MaxCtx-1
MaxMsg == 2             \* a user message is 1..MaxMsg tokens long
MaxRounds == 2          \* max_tool_rounds is drawn from 0..MaxRounds
MaxTurns == 3           \* turns begun after construction or reset

Impls == {"Agent", "ChatSession", "Qwen3Agent"}

\* str_to_token("<|im_end|>\n", AddBos::Never)
ImEnd == <<"end", "end">>

\* Qwen3Agent always thinks; the others follow enable_thinking / ChatMode
Thinking == agent_cfg.impl = "Qwen3Agent" \/ agent_cfg.enable_thinking

\* is_first_turn (Agent), ctx.is_none() (Qwen3Agent), n_past == 0 (ChatSession)
FirstTurn == IF agent_cfg.impl = "ChatSession" THEN n_cur = 0 ELSE is_first_turn

\* str_to_token(prompt, add_bos): BOS and the system block on the first turn,
\* then the user block of m tokens and the assistant header
PromptTokens(first, m) ==
    (IF first THEN <<"bos">> ELSE <<>>)
    \o (IF first /\ agent_cfg.system_prompt THEN <<"sys">> ELSE <<>>)
    \o [i \in 1..m |-> "user"]
    \o <<"hdr">>

\* batch.add(token, n_cur + i, ..) for every token, then decode
Cells(tokens, start) ==
    {[pos |-> start + i - 1, kind |-> tokens[i]] : i \in 1..Len(tokens)}

\* decode succeeds when every position of the batch is inside the context
Fits(n, start) == start + n <= agent_cfg.ctx_len

\* clear_kv_cache_seq(Some(0), Some(p0), Some(p1))
ClearSeq(cells, p0, p1) == {c \in cells : ~(p0 <= c.pos /\ c.pos < p1)}

\* kv_cache_seq_add(0, Some(p0), p1, delta); p1 = None is "to the end"
SeqAdd(cells, p0, p1, delta) ==
    {IF p0 <= c.pos /\ (p1 = None \/ c.pos < Unwrap(p1))
     THEN [c EXCEPT !.pos = @ + delta] ELSE c : c \in cells}

\* Agent::new, ChatSession::new, Qwen3Agent::new
AgentConfigs ==
    [impl : Impls, ctx_len : {MaxCtx}, enable_thinking : BOOLEAN,
     system_prompt : BOOLEAN, max_tool_rounds : 0..MaxRounds]

\* The turn begins: prompt assembly, tokenization and the prompt decode.
\* Agent clears is_first_turn and Qwen3Agent creates its context before
\* str_to_token runs; str_to_token fails on a prompt it cannot convert (an
\* interior NUL byte), and the turn is then over with stopped = "tokenize".
TurnBegin(m) ==
    /\ chat_pc \in {"idle", "failed"}
    /\ LET first == FirstTurn
           tokens == PromptTokens(first, m)
           n_tokens == Len(tokens)
       IN  /\ is_first_turn' = FALSE
           /\ \E tokenizes \in BOOLEAN :
                 /\ IF tokenizes /\ Fits(n_tokens, n_cur)
                    THEN /\ kv' = kv \cup Cells(tokens, n_cur)
                         /\ n_cur' = n_cur + n_tokens
                         /\ chat_pc' = "generating"
                    ELSE /\ chat_pc' = "failed"
                         /\ UNCHANGED <<kv, n_cur>>
                 /\ turn' = [index |-> turn.index + 1, before |-> n_cur,
                             n_tokens |-> n_tokens,
                             with_system |-> first /\ agent_cfg.system_prompt,
                             add_bos |-> first,
                             think_start |-> n_cur + n_tokens,
                             think_end_pos |-> None,
                             in_thinking |-> Thinking,
                             n_answer |-> 0,
                             stopped |-> IF tokenizes THEN "none" ELSE "tokenize"]

\* chat / chat_with_mode called directly
Chat ==
    /\ agent_cfg.impl \in Impls
    /\ tool.pc \in {"none", "returned", "failed"}
    /\ turn.index < MaxTurns
    /\ \E m \in 1..MaxMsg : TurnBegin(m)
    /\ UNCHANGED <<pc, cfg, cash, symbols, positions, orders, trades,
                   history_equities, bar_idx, curr_time, queue, cur, cbIdx, nextId,
                   result, crossLog, rested, error, env, rtVars, toolVars, agent_cfg, tool>>

\* ChatSession and Qwen3Agent test n_past >= max_ctx - 1 before they sample;
\* Agent::chat and Agent::chat_internal do not
HasCtxCheck == agent_cfg.impl \in {"ChatSession", "Qwen3Agent"}

\* max_ctx > 0 && n_past >= max_ctx.saturating_sub(1)
CtxReached == HasCtxCheck /\ n_cur >= Max(agent_cfg.ctx_len - 1, 0)

\* the loop breaks: the context check, or the sampled token ends the reply
GenStop ==
    /\ chat_pc = "generating"
    /\ \/ CtxReached /\ turn' = [turn EXCEPT !.stopped = "ctx"]
       \/ ~CtxReached /\ turn' = [turn EXCEPT !.stopped = "eog"]
    /\ chat_pc' = "finishing"
    /\ UNCHANGED <<pc, cfg, cash, symbols, positions, orders, trades,
                   history_equities, bar_idx, curr_time, queue, cur, cbIdx, nextId,
                   result, crossLog, rested, error, env, rtVars, toolVars, agent_cfg, n_cur,
                   is_first_turn, kv, tool>>

\* the kinds the sampler can return next, besides the end of the reply
NextKinds == IF turn.in_thinking THEN {"think", "think_end"} ELSE {"answer"}

\* One sampled token is committed at position n_cur.
GenToken ==
    /\ chat_pc = "generating"
    /\ ~CtxReached
    /\ \E k \in NextKinds :
          /\ n_cur' = n_cur + 1
          /\ IF Fits(1, n_cur)
             THEN /\ kv' = kv \cup Cells(<<k>>, n_cur)
                  /\ UNCHANGED chat_pc
             ELSE /\ chat_pc' = "failed"
                  /\ UNCHANGED kv
          /\ turn' = [turn EXCEPT
                 !.in_thinking = turn.in_thinking /\ k # "think_end",
                 !.n_answer = IF k = "answer" THEN @ + 1 ELSE @,
                 !.think_end_pos =
                     IF k = "think_end" /\ Thinking /\ @ = None
                     THEN Some(n_cur + 1) ELSE @]
    /\ UNCHANGED <<pc, cfg, cash, symbols, positions, orders, trades,
                   history_equities, bar_idx, curr_time, queue, cur, cbIdx, nextId,
                   result, crossLog, rested, error, env, rtVars, toolVars, agent_cfg,
                   is_first_turn, tool>>

\* the turn is a chat_internal call of chat_with_tools
Internal == tool.pc = "generating"

\* the range the implementation removes from the cache after the reply:
\* Agent::chat and Qwen3Agent drop everything from think_start on,
\* chat_internal does so when enable_thinking is set, ChatSession drops the
\* tokens up to and including </think> when it saw one
ElideTo ==
    CASE agent_cfg.impl = "Agent" ->
            IF Internal /\ ~agent_cfg.enable_thinking
            THEN turn.think_start ELSE n_cur
      [] agent_cfg.impl = "Qwen3Agent" -> n_cur
      [] OTHER ->
            IF Thinking /\ turn.think_end_pos # None
            THEN Unwrap(turn.think_end_pos) ELSE turn.think_start

\* an elision that clears the range and moves the cursor, without shifting
\* the entries behind the range
Elided_NoShift ==
    LET len == ElideTo - turn.think_start IN
    IF len > 0
    THEN [kv |-> ClearSeq(kv, turn.think_start, ElideTo), n_cur |-> n_cur - len]
    ELSE [kv |-> kv, n_cur |-> n_cur]

\* the cache and the cursor after the elision
Elided ==
    LET len == ElideTo - turn.think_start IN
    IF len > 0
    THEN [kv |-> SeqAdd(ClearSeq(kv, turn.think_start, ElideTo), ElideTo,
                        IF agent_cfg.impl = "ChatSession" THEN Some(n_cur) ELSE None,
                        0 - len),
          n_cur |-> n_cur - len]
    ELSE [kv |-> kv, n_cur |-> n_cur]

\* After the loop: the thinking segment is removed, "<|im_end|>\n" is encoded.
TurnEnd ==
    /\ chat_pc = "finishing"
    /\ IF Fits(Len(ImEnd), Elided.n_cur)
       THEN /\ kv' = Elided.kv \cup Cells(ImEnd, Elided.n_cur)
            /\ n_cur' = Elided.n_cur + Len(ImEnd)
            /\ chat_pc' = "idle"
       ELSE /\ kv' = Elided.kv
            /\ n_cur' = Elided.n_cur
            /\ chat_pc' = "failed"
    /\ UNCHANGED <<pc, cfg, cash, symbols, positions, orders, trades,
                   history_equities, bar_idx, curr_time, queue, cur, cbIdx, nextId,
                   result, crossLog, rested, error, env, rtVars, toolVars, agent_cfg,
                   is_first_turn, turn, tool>>

\* Agent::reset, Qwen3Agent::reset: a new context
Reset ==
    /\ agent_cfg.impl \in {"Agent", "Qwen3Agent"}
    /\ chat_pc \in {"idle", "failed"}
    /\ tool.pc \in {"none", "returned", "failed"}
    /\ kv' = {}
    /\ n_cur' = 0
    /\ is_first_turn' = TRUE
    /\ turn' = NoTurn
    /\ chat_pc' = "idle"
    /\ UNCHANGED <<pc, cfg, cash, symbols, positions, orders, trades,
                   history_equities, bar_idx, curr_time, queue, cur, cbIdx, nextId,
                   result, crossLog, rested, error, env, rtVars, toolVars, agent_cfg, tool>>

\* a loop that runs one round more than max_tool_rounds
RoundsLeft_OneMore == tool.rounds <= agent_cfg.max_tool_rounds

\* chat_with_tools: rounds < max_tool_rounds
RoundsLeft == tool.rounds < agent_cfg.max_tool_rounds

\* Agent::chat_with_tools is called
ToolsBegin ==
    /\ agent_cfg.impl = "Agent"
    /\ chat_pc \in {"idle", "failed"}
    /\ tool.pc \in {"none", "returned", "failed"}
    /\ turn.index + agent_cfg.max_tool_rounds <= MaxTurns
    /\ tool' = [pc |-> "loop", rounds |-> 0, generations |-> 0,
                error_reported |-> FALSE, full_response |-> ""]
    /\ UNCHANGED <<pc, cfg, cash, symbols, positions, orders, trades,
                   history_equities, bar_idx, curr_time, queue, cur, cbIdx, nextId,
                   result, crossLog, rested, error, env, rtVars, toolVars, agent_cfg, n_cur,
                   is_first_turn, kv, chat_pc, turn>>

\* the head of the loop: the cap is reported, or the next round generates
ToolsRound ==
    /\ tool.pc = "loop"
    /\ IF RoundsLeft
       THEN /\ \E m \in 1..MaxMsg : TurnBegin(m)
            /\ tool' = [tool EXCEPT !.pc = "generating", !.rounds = @ + 1,
                                    !.generations = @ + 1]
       ELSE /\ tool' = [tool EXCEPT !.pc = "returned", !.error_reported = TRUE]
            /\ UNCHANGED <<n_cur, is_first_turn, kv, chat_pc, turn>>
    /\ UNCHANGED <<pc, cfg, cash, symbols, positions, orders, trades,
                   history_equities, bar_idx, curr_time, queue, cur, cbIdx, nextId,
                   result, crossLog, rested, error, env, rtVars, toolVars, agent_cfg>>

\* chat_internal returned Ok: tool results continue the loop, anything else
\* is the final response
ToolsAfterTurn ==
    /\ tool.pc = "generating"
    /\ chat_pc = "idle"
    /\ \/ tool' = [tool EXCEPT !.pc = "loop"]
       \/ \E text \in {"", "text"} :
             tool' = [tool EXCEPT !.pc = "returned", !.full_response = text]
    /\ UNCHANGED <<pc, cfg, cash, symbols, positions, orders, trades,
                   history_equities, bar_idx, curr_time, queue, cur, cbIdx, nextId,
                   result, crossLog, rested, error, env, rtVars, toolVars, agent_cfg, n_cur,
                   is_first_turn, kv, chat_pc, turn>>

\* chat_internal returned Err: `?` returns it from chat_with_tools
ToolsFail ==
    /\ tool.pc = "generating"
    /\ chat_pc = "failed"
    /\ tool' = [tool EXCEPT !.pc = "failed"]
    /\ UNCHANGED <<pc, cfg, cash, symbols, positions, orders, trades,
                   history_equities, bar_idx, curr_time, queue, cur, cbIdx, nextId,
                   result, crossLog, rested, error, env, rtVars, toolVars, agent_cfg, n_cur,
                   is_first_turn, kv, chat_pc, turn>>

\* the steps of a call in progress
ChatStep == GenStop \/ GenToken \/ TurnEnd \/ ToolsRound \/ ToolsAfterTurn \/ ToolsFail

NextChat ==
    \/ Chat
    \/ GenStop
    \/ GenToken
    \/ TurnEnd
    \/ Reset
    \/ ToolsBegin
    \/ ToolsRound
    \/ ToolsAfterTurn
    \/ ToolsFail

InitChat ==
    /\ \E c \in Configs : c.history_bar_len = 1 /\ New(c)
    /\ env = [requests |-> "all", id_cap |-> 0]
    /\ NoRuntime
    /\ agent_cfg \in AgentConfigs
    /\ n_cur = 0
    /\ is_first_turn = TRUE
    /\ kv = {}
    /\ chat_pc = "idle"
    /\ turn = NoTurn
    /\ tool = NoTool
    /\ NoTools

SpecChat == InitChat /\ [][NextChat]_vars

\* a call in progress runs on: sampling, decoding and the tools all return
SpecChatFair == InitChat /\ [][NextChat]_vars /\ WF_vars(ChatStep)

---------------------------------------------------------------------------
(* Report::new: ret and mdd *)

\* An f64 quotient is kept as the exact fraction num/den with den > 0.  The
\* f64 division rounds monotonically and -1, 0 and 1 are f64 values, so the
\* comparisons of a quotient with them agree with those of the fraction.
Rat(num, den) == [num |-> num, den |-> den]
RatLeq(a, b) == a.num * b.den <= b.num * a.den
RatMax(a, b) == IF RatLeq(a, b) THEN b ELSE a

\* ret: (final_eq - init_eq) / init_eq, or 0.0 when init_eq is not positive
Ret(init_eq, final_eq) ==
    IF init_eq > 0 THEN Rat(final_eq - init_eq, init_eq) ELSE Rat(0, 1)

\* col("equity").cum_max at row i (1-based)
RECURSIVE CumMax(_, _)
CumMax(hist_eq, i) ==
    IF i = 1 THEN hist_eq[1] ELSE Max(CumMax(hist_eq, i - 1), hist_eq[i])

\* the drawdown column at row i: (peak - equity) / peak.  The first row of the
\* equity history is the initial cash, which is positive, so peak > 0.
Drawdown(hist_eq, i) == Rat(CumMax(hist_eq, i) - hist_eq[i], CumMax(hist_eq, i))

\* col("drawdown").max() over rows 1..i
RECURSIVE MaxDrawdown(_, _)
MaxDrawdown(hist_eq, i) ==
    IF i = 1 THEN Drawdown(hist_eq, 1)
    ELSE RatMax(MaxDrawdown(hist_eq, i - 1), Drawdown(hist_eq, i))

\* mdd: 0.0 with fewer than two rows, else the largest drawdown, floored at 0.0
Mdd(hist_eq) ==
    IF Len(hist_eq) < 2 THEN Rat(0, 1)
    ELSE RatMax(MaxDrawdown(hist_eq, Len(hist_eq)), Rat(0, 1))

\* the report run returns: Report::new(init_cash, calc_equity, history_equities, ..)
Report == [ret |-> Ret(cfg.init_cash, calc_equity), mdd |-> Mdd(history_equities)]

\* A small account over three minutes in which A opens at 3, 2 and 1, and a
\* larger one over the same minutes.
ReportConfigs ==
    { [init_cash |-> 3, maker_fee_rate |-> 0, taker_fee_rate |-> 0, slippage |-> 0,
       history_bar_len |-> 0, start_time |-> 57, end_time |-> 60],
      [init_cash |-> 12, maker_fee_rate |-> 0, taker_fee_rate |-> 0, slippage |-> 0,
       history_bar_len |-> 0, start_time |-> 57, end_time |-> 60] }

InitReport ==
    /\ \E c \in ReportConfigs : New(c)
    /\ env = [requests |-> "all", id_cap |-> MaxOrders - 1]
    /\ NoRuntime
    /\ NoAgent
    /\ NoTools

SpecReport == InitReport /\ [][Next]_vars

---------------------------------------------------------------------------
(* The tool protocol (fuxi-quant-agent, tool.rs)                            *)
(*                                                                          *)
(* A text is a sequence of lexemes.  The markers the code searches for are  *)
(* lexemes of their own: "Action:", "Action Input:", "Observation:",        *)
(* "Thought:", "Final Answer:", "<tool_call>", "</tool_call>".  The others  *)
(* are the newline "\n", the space " ", a word "w", and the JSON texts the  *)
(* parser tells apart: "{}" a valid object, "{call}" a valid object with a  *)
(* name and arguments, "{x" a text that opens a brace and is no JSON, "42"  *)
(* valid JSON that is no object.  In a formatted result "'" is the double   *)
(* quote of a JSON string and "\\n" the backslash and n that serde_json     *)
(* writes for a newline.  No lexeme contains another marker, so str::find   *)
(* on the text is a search of the sequence.                                 *)

MaxResults == 2         \* tool results formatted into one message


\* str::find on s[from..]: the index of the first lex at or after from, else 0
RECURSIVE Find(_, _, _)
Find(s, lex, from) ==
    IF from > Len(s) THEN 0
    ELSE IF s[from] = lex THEN from
    ELSE Find(s, lex, from + 1)

\* str::rfind: the index of the last lex, else 0
RFind(s, lex) ==
    LET hits == {i \in 1..Len(s) : s[i] = lex}
    IN  IF hits = {} THEN 0 ELSE CHOOSE i \in hits : \A j \in hits : j <= i

\* str::find of "\n" followed by a marker, on s[from..]: the index of the newline
RECURSIVE FindLine(_, _, _)
FindLine(s, mark, from) ==
    IF from + 1 > Len(s) THEN 0
    ELSE IF s[from] = "\n" /\ s[from + 1] = mark THEN from
    ELSE FindLine(s, mark, from + 1)

\* str::contains
Contains(s, lex) == Find(s, lex, 1) # 0

\* str::trim_start, str::trim_end, str::trim: char::is_whitespace holds of
\* the space and the newline
RECURSIVE TrimStart(_)
TrimStart(s) ==
    IF s # <<>> /\ Head(s) \in {" ", "\n"} THEN TrimStart(Tail(s)) ELSE s

RECURSIVE TrimEnd(_)
TrimEnd(s) ==
    IF s # <<>> /\ s[Len(s)] \in {" ", "\n"}
    THEN TrimEnd(SubSeq(s, 1, Len(s) - 1)) ELSE s

Trim(s) == TrimEnd(TrimStart(s))

\* the arguments of the call: the parsed object, the empty object when the
\* text opens a brace and does not parse, else {"input": input_str}
Arguments(input_str) ==
    LET \* input_str.starts_with('{')
        starts_with_brace ==
            input_str # <<>> /\ Head(input_str) \in {"{}", "{call}", "{x"}
        \* serde_json::from_str succeeds: the whole text is one JSON value
        parses == input_str \in {<<"{}">>, <<"{call}">>, <<"42">>}
    IN
    IF starts_with_brace
    THEN IF parses
         THEN [kind |-> "json", text |-> input_str]
         ELSE [kind |-> "json", text |-> <<"{}">>]
    ELSE [kind |-> "wrapped", text |-> input_str]

\* parse_tool_calls
ParseToolCalls(output) ==
    LET action_pos == RFind(output, "Action:") IN
    IF action_pos = 0 THEN <<>>
    ELSE
    LET action_line_start == action_pos + 1
        nl == Find(output, "\n", action_line_start)
        action_line_end == IF nl # 0 THEN nl ELSE Len(output) + 1
        action_name == Trim(SubSeq(output, action_line_start, action_line_end - 1))
        input_pos == Find(output, "Action Input:", action_line_end)
    IN  IF input_pos = 0 THEN <<>>
        ELSE
        LET input_start == input_pos + 1
            obs == FindLine(output, "Observation:", input_start)
            tht == FindLine(output, "Thought:", input_start)
            input_end == IF obs # 0 THEN obs
                         ELSE IF tht # 0 THEN tht
                         ELSE Len(output) + 1
            input_str == Trim(SubSeq(output, input_start, input_end - 1))
        IN  IF action_name # <<>>
            THEN <<[name |-> action_name, arguments |-> Arguments(input_str)]>>
            ELSE <<>>

\* has_tool_call
HasToolCall(output) == Contains(output, "Action:") /\ Contains(output, "Action Input:")

\* serde_json::to_string_pretty of an object of one string field; in the
\* string a newline is escaped to backslash and n (the texts of the model
\* hold no quote and no backslash)
Pretty(content) ==
    LET escaped == [i \in 1..Len(content.text) |->
                       IF content.text[i] = "\n" THEN "\\n" ELSE content.text[i]]
    IN  <<"{", "\n", " ", " ", "'", content.key, "'", ":", " ", "'">>
        \o escaped \o <<"'", "\n", "}">>

\* format_tool_response
FormatToolResponse(res) == <<"Observation:", " ">> \o Pretty(res.content)

\* format_tool_responses: the formatted results joined by "\n"
RECURSIVE FormatToolResponses(_)
FormatToolResponses(results) ==
    IF results = <<>> THEN <<>>
    ELSE IF Len(results) = 1 THEN FormatToolResponse(results[1])
    ELSE FormatToolResponse(results[1]) \o <<"\n">>
         \o FormatToolResponses(Tail(results))

\* extract_content_without_tool_calls
ExtractContentWithoutToolCalls(output) ==
    LET fin == Find(output, "Final Answer:", 1)
        act == Find(output, "Action:", 1)
    IN  IF fin # 0 THEN Trim(SubSeq(output, fin + 1, Len(output)))
        ELSE IF act # 0 THEN Trim(SubSeq(output, 1, act - 1))
        ELSE Trim(output)

\* the texts handed to the parser: ReAct steps with every shape of name,
\* input and continuation, Hermes blocks, and plain answers
Texts ==
    LET names == {<<>>, <<" ", "w">>, <<" ", "w", " ">>}
        inputs == {<<" ", "{}">>, <<" ", "{x">>, <<" ", "42">>,
                   <<" ", "w">>, <<" ", "{}", " ", "w">>}
        continuations ==
            {<<>>, <<"\n">>,
             <<"\n", "Observation:", " ", "w">>,
             <<"\n", "Thought:", " ", "w">>,
             <<"\n", "Thought:", " ", "w", "\n", "Observation:", " ", "w">>}
        openings ==
            {<<>>, <<"Thought:", " ", "w", "\n">>,
             <<"Action:", " ", "w", "\n", "Action Input:", " ", "{}",
               "\n", "Observation:", " ", "w", "\n">>}
        react ==
            {o \o <<"Action:">> \o n \o <<"\n", "Action Input:">> \o i \o c :
                o \in openings, n \in names, i \in inputs, c \in continuations}
        hermes ==
            {<<"<tool_call>", "{call}", "</tool_call>">>,
             <<"<tool_call>", "{x", "</tool_call>">>,
             <<"w", "<tool_call>", "{call}", "</tool_call>", "\n",
               "<tool_call>", "{call}", "</tool_call>">>,
             <<"<tool_call>", "{x", "</tool_call>",
               "<tool_call>", "{call}", "</tool_call>">>}
        plain ==
            {<<>>, <<"w">>,
             <<"Thought:", " ", "w", "\n", "Final Answer:", " ", "w">>,
             <<"Action:", " ", "w">>, <<"Action Input:", " ", "w">>}
    IN  react \cup hermes \cup plain

\* the lists of results an executor returns, each {"result": text} or
\* {"error": text}
ResultLists ==
    LET texts == {<<>>, <<"w">>, <<"Action:", " ", "w">>,
                  <<"Action Input:", " ", "w">>,
                  <<"Action:", " ", "w", "\n", "Action Input:", " ", "w">>}
        results == [name : {<<"w">>},
                    content : [key : {"result", "error"}, text : texts]]
    IN  UNION {[1..n -> results] : n \in 0..MaxResults}

\* format_tool_responses is applied to the results
FormatResults ==
    /\ parse.pc = "results"
    /\ parse' = [parse EXCEPT !.pc = "output",
                              !.output = FormatToolResponses(parse.results)]
    /\ UNCHANGED <<pc, cfg, cash, symbols, positions, orders, trades,
                   history_equities, bar_idx, curr_time, queue, cur, cbIdx, nextId,
                   result, crossLog, rested, error, env, rtVars, chatVars,
                   stream, mcp, wire>>

\* parse_tool_calls is applied to the text
ParseOutput ==
    /\ parse.pc = "output"
    /\ parse' = [parse EXCEPT !.pc = "parsed",
                              !.calls = ParseToolCalls(parse.output)]
    /\ UNCHANGED <<pc, cfg, cash, symbols, positions, orders, trades,
                   history_equities, bar_idx, curr_time, queue, cur, cbIdx, nextId,
                   result, crossLog, rested, error, env, rtVars, chatVars,
                   stream, mcp, wire>>

NextParse == FormatResults \/ ParseOutput

InitParse ==
    /\ \E c \in Configs : c.history_bar_len = 1 /\ New(c)
    /\ env = [requests |-> "all", id_cap |-> 0]
    /\ NoRuntime
    /\ NoAgent
    /\ stream = NoStream
    /\ mcp = NoMcp
    /\ wire = <<>>
    /\ \/ \E t \in Texts :
             parse = [pc |-> "output", results |-> <<>>, output |-> t,
                      calls |-> <<>>]
       \/ \E r \in ResultLists :
             parse = [pc |-> "results", results |-> r, output |-> <<>>,
                      calls |-> <<>>]

SpecParse == InitParse /\ [][NextParse]_vars

---------------------------------------------------------------------------
(* The MCP client (fuxi-quant-agent, mcp.rs)                                *)
(*                                                                          *)
(* A server or tool name is a sequence of characters.  A server answers a   *)
(* request with a result, with an error, with a response that holds         *)
(* neither, with a line that is no response (or with the end of its         *)
(* output), or with nothing, in which case read_line does not return.       *)

MaxCalls == 2           \* call_tool invocations on one manager


\* the server names of the configurations: "a" and "a-b"
ServerNames == {<<"a">>, <<"a", "-", "b">>}

\* the tools a server lists in answer to tools/list, by their MCP names
Advertised(s) ==
    IF s = <<"a">> THEN <<(<<"b", "-", "c">>), (<<"c">>)>> ELSE <<(<<"c">>)>>

Replies == {"result", "error", "empty", "garbage", "silent"}

\* convert_single_tool: format!("{}-{}", server_name, mcp_tool.name)
Qualified(server_name, mcp_name) == server_name \o <<"-">> \o mcp_name

\* str::strip_prefix(prefix).unwrap_or(name)
StripPrefix(name, prefix) ==
    IF Len(name) >= Len(prefix) /\ SubSeq(name, 1, Len(prefix)) = prefix
    THEN SubSeq(name, Len(prefix) + 1, Len(name))
    ELSE name

\* convert_mcp_tools: the qualified names of the listed tools, in order
ConvertMcpTools(server_name, mcp_tools) ==
    [i \in 1..Len(mcp_tools) |-> Qualified(server_name, mcp_tools[i])]

\* the loop of init over the tools of one server (mcp.rs:265-267);
\* tool_to_server is a set of <<qualified name, server>>, and HashMap::insert
\* replaces the entry of the key
RECURSIVE InsertAll(_, _, _)
InsertAll(t2s, names, server_name) ==
    IF names = <<>> THEN t2s
    ELSE InsertAll({p \in t2s : p[1] # Head(names)}
                       \cup {<<Head(names), server_name>>},
                   Tail(names), server_name)

\* JsonRpcRequest written to the stdin of a server
Request(method, name) == [method |-> method, name |-> name]

\* the server failed in connect_server: the connection is dropped
ServerFailed ==
    [mcp EXCEPT !.pc = "loop", !.server = <<>>, !.server_tools = <<>>,
                !.todo = mcp.todo \ {mcp.server},
                !.failed = mcp.failed \cup {mcp.server}]

\* conns.insert(server_name, conn), and the loop goes on
ServerInserted ==
    [mcp EXCEPT !.pc = "loop", !.server = <<>>, !.server_tools = <<>>,
                !.todo = mcp.todo \ {mcp.server},
                !.connections = mcp.connections \cup {mcp.server}]

\* McpManager::init is called: the configuration is validated
McpInit ==
    /\ mcp.pc = "new"
    /\ IF mcp.config # {}
       THEN mcp' = [mcp EXCEPT !.pc = "loop", !.todo = mcp.config]
       ELSE mcp' = [mcp EXCEPT !.pc = "invalid", !.returned = "err"]
    /\ UNCHANGED <<pc, cfg, cash, symbols, positions, orders, trades,
                   history_equities, bar_idx, curr_time, queue, cur, cbIdx, nextId,
                   result, crossLog, rested, error, env, rtVars, chatVars,
                   stream, parse, wire>>

\* the loop takes the next server; McpConnection::new spawns it or fails
Spawn ==
    /\ mcp.pc = "loop"
    /\ \E s \in mcp.todo, spawned \in BOOLEAN :
          IF spawned
          THEN mcp' = [mcp EXCEPT !.pc = "initialize", !.server = s]
          ELSE mcp' = [mcp EXCEPT !.todo = mcp.todo \ {s},
                                  !.failed = mcp.failed \cup {s}]
    /\ UNCHANGED <<pc, cfg, cash, symbols, positions, orders, trades,
                   history_equities, bar_idx, curr_time, queue, cur, cbIdx, nextId,
                   result, crossLog, rested, error, env, rtVars, chatVars,
                   stream, parse, wire>>

\* McpConnection::initialize, first request: in connect_server, and again in
\* init once the tools are registered
SendInitialize ==
    /\ mcp.pc \in {"initialize", "reinitialize"}
    /\ wire' = [wire EXCEPT ![mcp.server] = Append(@, Request("initialize", <<>>))]
    /\ \E reply \in Replies :
          mcp' = CASE reply = "silent" -> [mcp EXCEPT !.pc = "blocked"]
                   [] reply = "result" ->
                        [mcp EXCEPT !.pc = IF mcp.pc = "initialize"
                                           THEN "initialized" ELSE "reinitialized"]
                   [] OTHER ->
                        IF mcp.pc = "initialize" THEN ServerFailed
                        ELSE [ServerInserted EXCEPT
                                 !.warned = mcp.warned \cup {mcp.server}]
    /\ UNCHANGED <<pc, cfg, cash, symbols, positions, orders, trades,
                   history_equities, bar_idx, curr_time, queue, cur, cbIdx, nextId,
                   result, crossLog, rested, error, env, rtVars, chatVars,
                   stream, parse>>

\* McpConnection::initialize, second request: the notification is written as
\* a request with an id and its response is read
SendInitialized ==
    /\ mcp.pc \in {"initialized", "reinitialized"}
    /\ wire' = [wire EXCEPT ![mcp.server] =
                   Append(@, Request("notifications/initialized", <<>>))]
    /\ \E reply \in Replies :
          mcp' = CASE reply = "silent" -> [mcp EXCEPT !.pc = "blocked"]
                   [] reply = "result" ->
                        IF mcp.pc = "initialized"
                        THEN [mcp EXCEPT !.pc = "list_tools"]
                        ELSE ServerInserted
                   [] OTHER ->
                        IF mcp.pc = "initialized" THEN ServerFailed
                        ELSE [ServerInserted EXCEPT
                                 !.warned = mcp.warned \cup {mcp.server}]
    /\ UNCHANGED <<pc, cfg, cash, symbols, positions, orders, trades,
                   history_equities, bar_idx, curr_time, queue, cur, cbIdx, nextId,
                   result, crossLog, rested, error, env, rtVars, chatVars,
                   stream, parse>>

\* McpConnection::list_tools and convert_mcp_tools
SendListTools ==
    /\ mcp.pc = "list_tools"
    /\ wire' = [wire EXCEPT ![mcp.server] = Append(@, Request("tools/list", <<>>))]
    /\ \E reply \in Replies :
          mcp' = CASE reply = "silent" -> [mcp EXCEPT !.pc = "blocked"]
                   [] reply = "result" ->
                        [mcp EXCEPT !.pc = "register",
                                    !.server_tools =
                                        ConvertMcpTools(mcp.server,
                                                        Advertised(mcp.server))]
                   [] OTHER -> ServerFailed
    /\ UNCHANGED <<pc, cfg, cash, symbols, positions, orders, trades,
                   history_equities, bar_idx, curr_time, queue, cur, cbIdx, nextId,
                   result, crossLog, rested, error, env, rtVars, chatVars,
                   stream, parse>>

\* connect_server returned Ok: the tools are entered in tool_to_server and
\* appended to all_tools
Register ==
    /\ mcp.pc = "register"
    /\ mcp' = [mcp EXCEPT
                  !.pc = "reinitialize",
                  !.tool_to_server = InsertAll(@, mcp.server_tools, mcp.server),
                  !.all_tools = @ \o mcp.server_tools]
    /\ UNCHANGED <<pc, cfg, cash, symbols, positions, orders, trades,
                   history_equities, bar_idx, curr_time, queue, cur, cbIdx, nextId,
                   result, crossLog, rested, error, env, rtVars, chatVars,
                   stream, parse, wire>>

\* the loop is over: init stores the tools and returns them
InitReturn ==
    /\ mcp.pc = "loop"
    /\ mcp.todo = {}
    /\ mcp' = [mcp EXCEPT !.pc = "ready", !.tools = mcp.all_tools,
                          !.returned = "ok"]
    /\ UNCHANGED <<pc, cfg, cash, symbols, positions, orders, trades,
                   history_equities, bar_idx, curr_time, queue, cur, cbIdx, nextId,
                   result, crossLog, rested, error, env, rtVars, chatVars,
                   stream, parse, wire>>

\* McpManager::call_tool up to the request: the server and the name it sends,
\* or the error it returns without a request
Route(m, name) ==
    LET \* t2s.get(tool_name)
        found == IF \E p \in m.tool_to_server : p[1] = name
                 THEN Some((CHOOSE p \in m.tool_to_server : p[1] = name)[2])
                 ELSE None
    IN
    IF found = None
    THEN [error |-> "Tool not found", server |-> <<>>, sent |-> <<>>]
    ELSE LET server_name == Unwrap(found) IN
         IF server_name \notin m.connections
         THEN [error |-> "Server not connected", server |-> <<>>, sent |-> <<>>]
         ELSE [error |-> "none", server |-> server_name,
               sent |-> StripPrefix(name, server_name \o <<"-">>)]

\* the Result of McpManager::call_tool, given the server's reply to tools/call
CallResult(m, name, reply) ==
    LET r == Route(m, name)
        \* the error send_request returns
        reply_error ==
            CASE reply = "error" -> "MCP error"
              [] reply = "empty" -> "Empty result from MCP server"
              [] OTHER -> "io or parse error"
    IN
    IF r.error # "none"
    THEN [name |-> name, ok |-> FALSE, text |-> r.error,
          server |-> r.server, sent |-> r.sent]
    ELSE IF reply = "result"
    THEN [name |-> name, ok |-> TRUE, text |-> "content",
          server |-> r.server, sent |-> r.sent]
    ELSE [name |-> name, ok |-> FALSE, text |-> reply_error,
          server |-> r.server, sent |-> r.sent]

\* the requests written by a call_tool
Wired(w, m, name) ==
    LET r == Route(m, name) IN
    IF r.error # "none" THEN w
    ELSE [w EXCEPT ![r.server] = Append(@, Request("tools/call", r.sent))]

\* McpManager::call_tool, asked for every qualified name and for a bare one
CallTool ==
    /\ mcp.pc \in {"new", "ready", "invalid"}
    /\ mcp.calls < MaxCalls
    /\ \E name \in UNION {{Qualified(s, Advertised(s)[i]) :
                               i \in 1..Len(Advertised(s))} : s \in ServerNames}
                    \cup {<<"c">>},
          reply \in Replies :
          /\ wire' = Wired(wire, mcp, name)
          /\ IF Route(mcp, name).error = "none" /\ reply = "silent"
             THEN mcp' = [mcp EXCEPT !.pc = "blocked", !.calls = @ + 1]
             ELSE mcp' = [mcp EXCEPT !.calls = @ + 1,
                                     !.last_call = Some(CallResult(mcp, name, reply))]
    /\ UNCHANGED <<pc, cfg, cash, symbols, positions, orders, trades,
                   history_equities, bar_idx, curr_time, queue, cur, cbIdx, nextId,
                   result, crossLog, rested, error, env, rtVars, chatVars,
                   stream, parse>>

\* McpManager::shutdown: the connections are dropped
Shutdown ==
    /\ mcp.pc = "ready"
    /\ mcp.connections # {}
    /\ mcp' = [mcp EXCEPT !.connections = {}]
    /\ UNCHANGED <<pc, cfg, cash, symbols, positions, orders, trades,
                   history_equities, bar_idx, curr_time, queue, cur, cbIdx, nextId,
                   result, crossLog, rested, error, env, rtVars, chatVars,
                   stream, parse, wire>>

NextMcp ==
    \/ McpInit
    \/ Spawn
    \/ SendInitialize
    \/ SendInitialized
    \/ SendListTools
    \/ Register
    \/ InitReturn
    \/ CallTool
    \/ Shutdown

InitMcp ==
    /\ \E c \in Configs : c.history_bar_len = 1 /\ New(c)
    /\ env = [requests |-> "all", id_cap |-> 0]
    /\ NoRuntime
    /\ NoAgent
    /\ stream = NoStream
    /\ parse = NoParse
    /\ \E config \in SUBSET ServerNames : mcp = [NoMcp EXCEPT !.config = config]
    /\ wire = [s \in ServerNames |-> <<>>]

SpecMcp == InitMcp /\ [][NextMcp]_vars

---------------------------------------------------------------------------
(* chat_with_tools with the MCP executor (fuxi-quant-agent, agent.rs)       *)
(*                                                                          *)
(* The round is followed event by event: chat_internal hands the pieces of  *)
(* the model's output to the closure of chat_with_tools as Token events,    *)
(* the closure decides what reaches the caller's on_event, and the text of  *)
(* the round is then parsed and its call given to the executor that         *)
(* create_mcp_executor builds on a McpManager.                              *)


\* the closure of chat_with_tools on StreamEvent::Token(token): the stream
\* after the event.  "<tool_call>" may arrive as one piece or as the two
\* adjacent pieces "<tool" and "_call>"; "{call}" begins with {"name".
OnToken(s, token) ==
    LET seen == [s EXCEPT !.round_response = Append(@, token)]
        pending == Append(s.pending_tokens, token)
        opens(i) == \/ pending[i] = "<tool_call>"
                    \/ /\ pending[i] = "<tool"
                       /\ i < Len(pending)
                       /\ pending[i + 1] = "_call>"
        \* pending_tokens.contains("<tool_call>")
        contains_open == \E i \in 1..Len(pending) : opens(i)
        \* pending_tokens.find("<tool_call>")
        pos == CHOOSE i \in 1..Len(pending) :
                   opens(i) /\ \A j \in 1..(i - 1) : ~opens(j)
        \* contains("<tool") || contains("{\"name\"")
        holds_back == \E i \in 1..Len(pending) :
                         pending[i] \in {"<tool", "<tool_call>", "{call}"}
    IN  IF s.in_tool_call THEN seen
        ELSE IF contains_open
        THEN LET before == Trim(SubSeq(pending, 1, pos - 1))
                 \* before.starts_with("{\"name\"")
                 starts_with_name == before # <<>> /\ Head(before) = "{call}"
             IN  [seen EXCEPT
                     !.in_tool_call = TRUE,
                     !.pending_tokens = <<>>,
                     !.tokens = IF before # <<>> /\ ~starts_with_name
                                THEN Append(@, before) ELSE @]
        ELSE IF holds_back
        THEN [seen EXCEPT !.pending_tokens = pending]
        ELSE [seen EXCEPT !.pending_tokens = <<>>,
                          !.tokens = Append(@, pending)]

\* an executor that drops a failed call instead of reporting it
McpExecutor_Drops(m, call, reply) ==
    LET r == CallResult(m, call.name, reply) IN
    IF r.ok
    THEN <<[name |-> r.name, content |-> [key |-> "result", text |-> <<r.text>>]]>>
    ELSE <<>>

\* the closure of create_mcp_executor: Some(result) of call_tool, or
\* Some(ToolResult {name: call.name, content: {"error": e}}); the Option is
\* a sequence of at most one result
McpExecutor(m, call, reply) ==
    LET r == CallResult(m, call.name, reply) IN
    IF r.ok
    THEN <<[name |-> r.name, content |-> [key |-> "result", text |-> <<r.text>>]]>>
    ELSE <<[name |-> call.name, content |-> [key |-> "error", text |-> <<r.text>>]]>>

\* what the model generates in one round, piece by piece; "a-c" is the tool
\* "c" of server "a", and no server registers the name "c"; a model that
\* thinks generates "</think>" between its thinking and its answer
Responses ==
    {<<"w", "</think>", "w">>,
     <<"<tool_call>", "{call}", "</tool_call>", "</think>", "w">>,
     <<"w">>,
     <<"Thought:", " ", "w", "\n", "Final Answer:", " ", "w">>,
     <<"Action:", " ">> \o Qualified(<<"a">>, <<"c">>) \o <<"\n", "Action Input:", " ", "{}">>,
     <<"Action:", " ">> \o <<"c">> \o <<"\n", "Action Input:", " ", "{}">>,
     <<"Action:", "\n", "Action Input:", " ", "w">>,
     <<"w", " ", "<tool_call>", "{call}", "</tool_call>">>,
     <<"<tool", "_call>", "{call}", "</tool_call>">>,
     <<"w", "{call}">>}

\* Agent::chat_with_tools is called with the executor of create_mcp_executor
StreamBegin ==
    /\ agent_cfg.impl = "Agent"
    /\ tool.pc = "none"
    /\ tool' = [pc |-> "loop", rounds |-> 0, generations |-> 0,
                error_reported |-> FALSE, full_response |-> ""]
    /\ stream' = [NoStream EXCEPT !.current_message = <<"w">>]
    /\ UNCHANGED <<pc, cfg, cash, symbols, positions, orders, trades,
                   history_equities, bar_idx, curr_time, queue, cur, cbIdx, nextId,
                   result, crossLog, rested, error, env, rtVars, agent_cfg, n_cur,
                   is_first_turn, kv, chat_pc, turn, parse, mcp, wire>>

\* the head of the loop: the cap is reported and the loop left, or the
\* locals of the round are made and chat_internal starts to generate
StreamRound ==
    /\ tool.pc = "loop"
    /\ IF RoundsLeft
       THEN /\ tool' = [tool EXCEPT !.pc = "generating", !.rounds = @ + 1,
                                    !.generations = @ + 1]
            /\ \E response \in Responses :
                  /\ agent_cfg.enable_thinking \/ ~Contains(response, "</think>")
                  /\ stream' = [stream EXCEPT
                                   !.round_response = <<>>,
                                   !.had_tool_call = FALSE,
                                   !.pending_tokens = <<>>,
                                   !.in_tool_call = FALSE,
                                   !.tokens = <<>>,
                                   !.script = response,
                                   !.in_thinking = agent_cfg.enable_thinking,
                                   !.thinking = <<>>]
       ELSE /\ tool' = [tool EXCEPT !.pc = "returned", !.error_reported = TRUE]
            /\ UNCHANGED stream
    /\ UNCHANGED <<pc, cfg, cash, symbols, positions, orders, trades,
                   history_equities, bar_idx, curr_time, queue, cur, cbIdx, nextId,
                   result, crossLog, rested, error, env, rtVars, agent_cfg, n_cur,
                   is_first_turn, kv, chat_pc, turn, parse, mcp, wire>>

\* chat_internal takes the next piece: inside the thinking segment the piece
\* "</think>" ends the segment (ThinkEnd, no Token event) and every other
\* piece is emitted as a Token event, as every piece of the answer is;
\* thinking keeps the pieces emitted inside the segment
StreamToken ==
    /\ tool.pc = "generating"
    /\ stream.script # <<>>
    /\ LET piece == Head(stream.script) IN
       IF stream.in_thinking /\ piece = "</think>"
       THEN stream' = [stream EXCEPT !.script = Tail(@), !.in_thinking = FALSE]
       ELSE stream' = [OnToken(stream, piece) EXCEPT
                          !.script = Tail(@),
                          !.thinking = IF stream.in_thinking
                                       THEN Append(@, piece) ELSE @]
    /\ UNCHANGED <<pc, cfg, cash, symbols, positions, orders, trades,
                   history_equities, bar_idx, curr_time, queue, cur, cbIdx, nextId,
                   result, crossLog, rested, error, env, rtVars, chatVars,
                   parse, mcp, wire>>

\* chat_internal returned Err: `?` returns it from chat_with_tools
StreamFail ==
    /\ tool.pc = "generating"
    /\ tool' = [tool EXCEPT !.pc = "failed"]
    /\ UNCHANGED <<pc, cfg, cash, symbols, positions, orders, trades,
                   history_equities, bar_idx, curr_time, queue, cur, cbIdx, nextId,
                   result, crossLog, rested, error, env, rtVars, agent_cfg, n_cur,
                   is_first_turn, kv, chat_pc, turn, toolVars>>

\* chat_internal returned Ok: the round's text is tested and parsed, the
\* call is executed, and the results continue the loop or the response is
\* returned
StreamRoundEnd ==
    /\ tool.pc = "generating"
    /\ stream.script = <<>>
    /\ mcp.pc \in {"new", "ready", "invalid"}
    /\ LET had_tool_call == HasToolCall(stream.round_response)
           tool_calls == IF had_tool_call
                         THEN ParseToolCalls(stream.round_response) ELSE <<>>
           \* the extracted content after a round that had a tool call, else
           \* the round's response as it is
           full_response ==
               IF had_tool_call
               THEN ExtractContentWithoutToolCalls(stream.round_response)
               ELSE stream.round_response
           \* the String returned, as the chat agent records it
           returned == IF full_response = <<>> THEN "" ELSE "text"
       IN  IF tool_calls = <<>>
           THEN /\ stream' = [stream EXCEPT !.had_tool_call = had_tool_call,
                                            !.full_response = full_response]
                /\ tool' = [tool EXCEPT !.pc = "returned",
                                        !.full_response = returned]
                /\ UNCHANGED <<mcp, wire>>
           ELSE \E reply \in Replies :
                   LET call == tool_calls[1]
                       results == McpExecutor(mcp, call, reply)
                   IN  /\ wire' = Wired(wire, mcp, call.name)
                       /\ IF Route(mcp, call.name).error = "none" /\ reply = "silent"
                          THEN /\ mcp' = [mcp EXCEPT !.pc = "blocked", !.calls = @ + 1]
                               /\ tool' = [tool EXCEPT !.pc = "blocked"]
                               /\ stream' = [stream EXCEPT !.had_tool_call = TRUE]
                          ELSE /\ mcp' = [mcp EXCEPT
                                            !.calls = @ + 1,
                                            !.last_call =
                                                Some(CallResult(mcp, call.name, reply))]
                               /\ IF results # <<>>
                                  THEN /\ stream' =
                                            [stream EXCEPT
                                                !.had_tool_call = TRUE,
                                                !.current_message =
                                                    FormatToolResponses(results)]
                                       /\ tool' = [tool EXCEPT !.pc = "loop"]
                                  ELSE /\ stream' =
                                            [stream EXCEPT
                                                !.had_tool_call = TRUE,
                                                !.full_response = full_response]
                                       /\ tool' = [tool EXCEPT
                                                      !.pc = "returned",
                                                      !.full_response =
                                                          returned]
    /\ UNCHANGED <<pc, cfg, cash, symbols, positions, orders, trades,
                   history_equities, bar_idx, curr_time, queue, cur, cbIdx, nextId,
                   result, crossLog, rested, error, env, rtVars, agent_cfg, n_cur,
                   is_first_turn, kv, chat_pc, turn, parse>>

NextTools ==
    \/ McpInit
    \/ Spawn
    \/ SendInitialize
    \/ SendInitialized
    \/ SendListTools
    \/ Register
    \/ InitReturn
    \/ Shutdown
    \/ StreamBegin
    \/ StreamRound
    \/ StreamToken
    \/ StreamFail
    \/ StreamRoundEnd

\* an Agent with its cap on the rounds, and a manager configured with the
\* server "a"
InitTools ==
    /\ \E c \in Configs : c.history_bar_len = 1 /\ New(c)
    /\ env = [requests |-> "all", id_cap |-> 0]
    /\ NoRuntime
    /\ \E c \in AgentConfigs :
          /\ c.impl = "Agent" /\ ~c.system_prompt
          /\ agent_cfg = c
    /\ n_cur = 0
    /\ is_first_turn = TRUE
    /\ kv = {}
    /\ chat_pc = "idle"
    /\ turn = NoTurn
    /\ tool = NoTool
    /\ stream = NoStream
    /\ parse = NoParse
    /\ mcp = [NoMcp EXCEPT !.config = {<<"a">>}]
    /\ wire = [s \in ServerNames |-> <<>>]

SpecTools == InitTools /\ [][NextTools]_vars

---------------------------------------------------------------------------
(* McpManager shared between threads (fuxi-quant-agent, mcp.rs)             *)
(*                                                                          *)
(* create_mcp_executor takes an Arc<McpManager>; the three tables of the    *)
(* manager are each behind a Mutex.  Here mcp holds the tables, the owner   *)
(* of each mutex and the position of every thread inside its call, and wire *)
(* is the sequence of the child processes spawned so far: a connection is   *)
(* the index of its child.  A response line is [id, body]; a line that      *)
(* answers no request has no id.                                            *)

MaxOps == 3             \* calls the threads make on the manager
MaxNotes == 1           \* lines the servers write that answer no request
MaxChildren == 2        \* processes spawned in one run

Threads == {"t1", "t2"}

\* a thread that is in no call of the manager
Idle == [op |-> "none", pc |-> "idle", todo |-> {}, server |-> <<>>,
         child |-> 0, step |-> "none", all_tools |-> <<>>, name |-> <<>>,
         result |-> "none"]

\* a child as McpConnection::new spawns it, and a child that was killed
Child(s, running) ==
    [server |-> s, running |-> running, request_id |-> 0, answered |-> 0,
     stdout |-> <<>>, unread |-> {}]

\* a connection is dropped without its child being killed
Dropped_NoKill(w, conns) == w

\* Drop for McpConnection, for every connection of a set: process.kill()
Dropped(w, conns) ==
    [i \in 1..Len(w) |->
        IF i \in conns THEN Child(w[i].server, FALSE) ELSE w[i]]

\* the MutexGuards of a thread go out of scope
Released(lock, t) ==
    [m \in DOMAIN lock |-> IF lock[m] = t THEN "free" ELSE lock[m]]

\* the call of a thread returns
Returned(r, res) == [Idle EXCEPT !.result = res]

\* the variables no step of the manager changes
ThreadFrame ==
    UNCHANGED <<pc, cfg, cash, symbols, positions, orders, trades,
                history_equities, bar_idx, curr_time, queue, cur, cbIdx, nextId,
                result, crossLog, rested, error, env, rtVars, chatVars,
                stream, parse>>

\* a thread calls init with a valid configuration, call_tool, get_tools or
\* shutdown
ThreadCalls(t) ==
    /\ mcp.th[t].pc = "idle"
    /\ mcp.ops < MaxOps
    /\ \/ \E config \in SUBSET ServerNames :
             /\ config # {}
             /\ Len(wire) + Cardinality(config) <= MaxChildren
             /\ mcp' = [mcp EXCEPT
                           !.ops = @ + 1,
                           !.th[t] = [Idle EXCEPT !.op = "init",
                                                  !.pc = "init_conns",
                                                  !.todo = config]]
       \/ \E name \in {Qualified(s, <<"c">>) : s \in ServerNames} :
             mcp' = [mcp EXCEPT
                        !.ops = @ + 1,
                        !.th[t] = [Idle EXCEPT !.op = "call_tool",
                                               !.pc = "call_t2s",
                                               !.name = name]]
       \/ \E op \in {"get_tools", "shutdown"} :
             mcp' = [mcp EXCEPT
                        !.ops = @ + 1,
                        !.th[t] = [Idle EXCEPT !.op = op, !.pc = op]]
    /\ UNCHANGED wire
    /\ ThreadFrame

\* init: self.connections.lock(), then self.tool_to_server.lock(); both
\* guards live until init returns
InitLocks(t) ==
    /\ mcp.th[t].pc \in {"init_conns", "init_t2s"}
    /\ LET m == IF mcp.th[t].pc = "init_conns"
                THEN "connections" ELSE "tool_to_server"
       IN  /\ mcp.lock[m] = "free"
           /\ mcp' = [mcp EXCEPT
                         !.lock[m] = t,
                         !.th[t].pc = IF m = "connections"
                                      THEN "init_t2s" ELSE "loop"]
    /\ UNCHANGED wire
    /\ ThreadFrame

\* the loop of init takes a server of the configuration, in the order of the
\* HashMap; McpConnection::new spawns the child or fails
InitConnect(t) ==
    /\ mcp.th[t].pc = "loop"
    /\ \E s \in mcp.th[t].todo, spawned \in BOOLEAN :
          IF spawned
          THEN /\ wire' = Append(wire, Child(s, TRUE))
               /\ mcp' = [mcp EXCEPT !.th[t].server = s,
                                     !.th[t].child = Len(wire) + 1,
                                     !.th[t].step = "initialize",
                                     !.th[t].pc = "send"]
          ELSE /\ mcp' = [mcp EXCEPT !.th[t].todo = @ \ {s}]
               /\ UNCHANGED wire
    /\ ThreadFrame

\* send_request, first half: the id is taken and the request line written
SendRequest(t) ==
    /\ mcp.th[t].pc = "send"
    /\ LET c == mcp.th[t].child IN
          wire' = [wire EXCEPT ![c].request_id = @ + 1,
                               ![c].unread = @ \cup {wire[c].request_id + 1}]
    /\ mcp' = [mcp EXCEPT !.th[t].pc = "recv"]
    /\ ThreadFrame

\* send_request, second half: read_line on a BufReader made for this request
\* returns the first line the child has written; the reader is dropped with
\* what it read ahead.  The line is the response whatever its id: a line
\* without an id does not parse, an error is returned as Err, a result as Ok.
\* What follows is the caller's: call_tool returns; connect_server goes on
\* with the handshake or fails, and the connection is dropped; init enters
\* the tools of the server, repeats initialize and inserts the connection,
\* which drops the connection the name had.
ReadResponse(t) ==
    LET r == mcp.th[t]
        c == r.child
    IN
    /\ r.pc = "recv"
    /\ wire[c].stdout # <<>>
    /\ LET line == Head(wire[c].stdout)
           ok == line.id # None /\ line.body = "result"
           read == [wire EXCEPT
                       ![c].stdout = <<>>,
                       ![c].unread = IF line.id = None THEN @
                                     ELSE @ \ {Unwrap(line.id)}]
           next(step) == [mcp EXCEPT !.th[t].step = step, !.th[t].pc = "send"]
           looped == [r EXCEPT !.pc = "loop", !.todo = @ \ {r.server},
                               !.server = <<>>, !.child = 0, !.step = "none"]
           replaced == {p[2] : p \in {q \in mcp.connections : q[1] = r.server}}
       IN  CASE r.step = "tools/call" ->
                  /\ wire' = read
                  /\ mcp' = [mcp EXCEPT
                                !.lock = Released(@, t),
                                !.th[t] = Returned(r, IF ok THEN "ok" ELSE "err")]
             [] r.step \in {"initialize", "initialized", "tools/list"} /\ ~ok ->
                  /\ wire' = Dropped(read, {c})
                  /\ mcp' = [mcp EXCEPT !.th[t] = looped]
             [] r.step = "initialize" /\ ok ->
                  /\ wire' = read
                  /\ mcp' = next("initialized")
             [] r.step = "initialized" /\ ok ->
                  /\ wire' = read
                  /\ mcp' = next("tools/list")
             [] r.step = "tools/list" /\ ok ->
                  LET server_tools ==
                          ConvertMcpTools(r.server, Advertised(r.server))
                  IN  /\ wire' = read
                      /\ mcp' = [mcp EXCEPT
                                    !.tool_to_server =
                                        InsertAll(@, server_tools, r.server),
                                    !.th[t].all_tools = @ \o server_tools,
                                    !.th[t].step = "reinitialize",
                                    !.th[t].pc = "send"]
             [] r.step = "reinitialize" /\ ok ->
                  /\ wire' = read
                  /\ mcp' = next("reinitialized")
             [] OTHER ->
                  /\ wire' = Dropped(read, replaced)
                  /\ mcp' = [mcp EXCEPT
                                !.connections =
                                    {q \in @ : q[1] # r.server}
                                        \cup {<<r.server, c>>},
                                !.th[t] = looped]
    /\ ThreadFrame

\* the loop of init is over: *self.tools.lock().unwrap() = all_tools.clone(),
\* and init returns
InitStore(t) ==
    /\ mcp.th[t].pc = "loop"
    /\ mcp.th[t].todo = {}
    /\ mcp.lock["tools"] = "free"
    /\ mcp' = [mcp EXCEPT !.tools = mcp.th[t].all_tools,
                          !.lock = Released(@, t),
                          !.th[t] = Returned(mcp.th[t], "ok")]
    /\ UNCHANGED wire
    /\ ThreadFrame

\* a call_tool that keeps the guard of tool_to_server
CallToolRoute_Keeps(t) ==
    /\ mcp.th[t].pc = "call_t2s"
    /\ mcp.lock["tool_to_server"] = "free"
    /\ LET found == {p \in mcp.tool_to_server : p[1] = mcp.th[t].name} IN
       IF found = {}
       THEN mcp' = [mcp EXCEPT !.th[t] = Returned(mcp.th[t], "err")]
       ELSE mcp' = [mcp EXCEPT
                       !.lock["tool_to_server"] = t,
                       !.th[t].server = (CHOOSE p \in found : TRUE)[2],
                       !.th[t].pc = "call_conns"]
    /\ UNCHANGED wire
    /\ ThreadFrame

\* call_tool: tool_to_server is locked, the server of the tool is looked up
\* and the guard is dropped
CallToolRoute(t) ==
    /\ mcp.th[t].pc = "call_t2s"
    /\ mcp.lock["tool_to_server"] = "free"
    /\ LET found == {p \in mcp.tool_to_server : p[1] = mcp.th[t].name} IN
       IF found = {}
       THEN mcp' = [mcp EXCEPT !.th[t] = Returned(mcp.th[t], "err")]
       ELSE mcp' = [mcp EXCEPT
                       !.th[t].server = (CHOOSE p \in found : TRUE)[2],
                       !.th[t].pc = "call_conns"]
    /\ UNCHANGED wire
    /\ ThreadFrame

\* call_tool: connections is locked and the connection of the server looked
\* up; the guard lives until call_tool returns
CallToolLock(t) ==
    /\ mcp.th[t].pc = "call_conns"
    /\ mcp.lock["connections"] = "free"
    /\ LET conn == {p \in mcp.connections : p[1] = mcp.th[t].server} IN
       IF conn = {}
       THEN mcp' = [mcp EXCEPT !.lock = Released(@, t),
                               !.th[t] = Returned(mcp.th[t], "err")]
       ELSE mcp' = [mcp EXCEPT
                       !.lock["connections"] = t,
                       !.th[t].child = (CHOOSE p \in conn : TRUE)[2],
                       !.th[t].step = "tools/call",
                       !.th[t].pc = "send"]
    /\ UNCHANGED wire
    /\ ThreadFrame

\* get_tools: self.tools.lock().unwrap().clone()
GetTools(t) ==
    /\ mcp.th[t].pc = "get_tools"
    /\ mcp.lock["tools"] = "free"
    /\ mcp' = [mcp EXCEPT !.th[t] = Returned(mcp.th[t], "ok")]
    /\ UNCHANGED wire
    /\ ThreadFrame

\* shutdown: connections is locked and cleared, which drops every connection
ShutdownClear(t) ==
    /\ mcp.th[t].pc = "shutdown"
    /\ mcp.lock["connections"] = "free"
    /\ wire' = Dropped(wire, {p[2] : p \in mcp.connections})
    /\ mcp' = [mcp EXCEPT !.connections = {},
                          !.th[t] = Returned(mcp.th[t], "ok")]
    /\ ThreadFrame

\* a running server answers the oldest request it has not answered, with a
\* result or with an error
ServerAnswers ==
    /\ \E c \in 1..Len(wire), body \in {"result", "error"} :
          /\ wire[c].running
          /\ wire[c].answered < wire[c].request_id
          /\ wire' = [wire EXCEPT
                         ![c].answered = @ + 1,
                         ![c].stdout = Append(@, [id |-> Some(wire[c].answered + 1),
                                                  body |-> body])]
    /\ UNCHANGED mcp
    /\ ThreadFrame

\* a running server writes a notification, a line that answers no request,
\* ahead of the response it owes
ServerNotifies ==
    /\ mcp.notes < MaxNotes
    /\ \E c \in 1..Len(wire) :
          /\ wire[c].running
          /\ wire[c].answered < wire[c].request_id
          /\ wire' = [wire EXCEPT
                         ![c].stdout = Append(@, [id |-> None, body |-> "note"])]
    /\ mcp' = [mcp EXCEPT !.notes = @ + 1]
    /\ ThreadFrame

\* the steps of a thread inside a call
ThreadStep(t) ==
    \/ InitLocks(t)
    \/ InitConnect(t)
    \/ SendRequest(t)
    \/ ReadResponse(t)
    \/ InitStore(t)
    \/ CallToolRoute(t)
    \/ CallToolLock(t)
    \/ GetTools(t)
    \/ ShutdownClear(t)

\* the threads, and servers that write nothing but the responses they owe
NextAnswering ==
    \/ \E t \in Threads : ThreadCalls(t)
    \/ \E t \in Threads : InitLocks(t)
    \/ \E t \in Threads : InitConnect(t)
    \/ \E t \in Threads : SendRequest(t)
    \/ \E t \in Threads : ReadResponse(t)
    \/ \E t \in Threads : InitStore(t)
    \/ \E t \in Threads : CallToolRoute(t)
    \/ \E t \in Threads : CallToolLock(t)
    \/ \E t \in Threads : GetTools(t)
    \/ \E t \in Threads : ShutdownClear(t)
    \/ ServerAnswers

NextThreads ==
    \/ NextAnswering
    \/ ServerNotifies

\* McpManager::new, shared by the threads
InitThreads ==
    /\ \E c \in Configs : c.history_bar_len = 1 /\ New(c)
    /\ env = [requests |-> "all", id_cap |-> 0]
    /\ NoRuntime
    /\ NoAgent
    /\ stream = NoStream
    /\ parse = NoParse
    /\ mcp = [connections |-> {}, tool_to_server |-> {}, tools |-> <<>>,
              lock |-> [m \in {"connections", "tool_to_server", "tools"} |-> "free"],
              th |-> [t \in Threads |-> Idle],
              ops |-> 0, notes |-> 0]
    /\ wire = <<>>

SpecThreads == InitThreads /\ [][NextThreads]_vars

\* every thread inside a call takes its next step when it can, and a running
\* server answers every request it is sent, with one line
SpecThreadsFair ==
    /\ InitThreads
    /\ [][NextAnswering]_vars
    /\ \A t \in Threads : WF_vars(ThreadStep(t))
    /\ WF_vars(ServerAnswers)


---------------------------------------------------------------------------
(* Claims *)

\* the price a request is valued at: the limit price, or the current price
ClaimPrice(req) ==
    IF req.type_ = "Limit" THEN Unwrap(req.price) ELSE symbols[req.code].price

ClaimRejected(req) ==
    \/ req.type_ = "Limit" /\ req.price = None
    \/ req.type_ = "Market" /\ req.price # None
    \/ req.size < MinSize
    \/ ClaimPrice(req) * req.size < MinCash
    \/ /\ IsOpen(req.direction, req.side)
       /\ calc_avail_cash < DecDiv(ClaimPrice(req) * req.size, positions[req.code].lever)
    \/ /\ IsClose(req.direction, req.side)
       /\ calc_pos_avail_size(req.code, req.direction) < req.size

\* C1: a place_order call on a configured contract returns an error and adds
\* no order if and only if one of the six rejection conditions holds.
C1_RejectIff ==
    [][(Trading /\ pc' = pc /\ (result' = "err" \/ nextId' # nextId)) =>
          \A req \in RequestsOf(env.requests) :
              (req.code \in CodeSet /\ PlaceOrder(req)) =>
                  ((result' = "err" /\ orders' = orders)
                       <=> ClaimRejected(req))
      ]_vars

\* C1 witness: an order was accepted, a later call was rejected, and an opening
\* request exists that the available cash does not cover.
C1_Witness ==
    /\ result = "err"
    /\ orders # <<>>
    /\ \E req \in WellFormed :
          /\ IsOpen(req.direction, req.side)
          /\ ~PlaceOrderOk(req)
          /\ calc_avail_cash < DecDiv(ClaimPrice(req) * req.size, positions[req.code].lever)

---------------------------------------------------------------------------

\* the order a cross step matches, and the candle it is matched against
Matched == Head(queue)
MatchedBar == Row(Matched.code)
LastTrade(ts) == ts[Len(ts)]

ClaimFills(o, bar) ==
    \/ o.type_ = "Market"
    \/ o.type_ = "Limit" /\ o.side = "Buy"
         /\ (Unwrap(o.price) >= bar.open \/ Unwrap(o.price) >= bar.low)
    \/ o.type_ = "Limit" /\ o.side = "Sell"
         /\ (Unwrap(o.price) <= bar.open \/ Unwrap(o.price) <= bar.high)

ClaimFillPrice(o, bar) ==
    CASE o.type_ = "Market" /\ o.side = "Buy" -> bar.open * (1 + cfg.slippage)
      [] o.type_ = "Market" /\ o.side = "Sell" -> bar.open * (1 - cfg.slippage)
      [] o.type_ = "Limit" /\ o.side = "Buy" ->
            IF Unwrap(o.price) >= bar.open THEN bar.open ELSE Unwrap(o.price)
      [] o.type_ = "Limit" /\ o.side = "Sell" ->
            IF Unwrap(o.price) <= bar.open THEN bar.open ELSE Unwrap(o.price)

\* C2: every cross step decides the fill and the fill price of the order it
\* matches by the market rule (open with slippage) or the limit rule (open when
\* the limit is at or through the open, else the limit when the candle reaches
\* it, else no fill); no other decision or price occurs.
C2_MatchRule ==
    [][(pc = "cross" /\ queue # <<>>) =>
          IF ClaimFills(Matched, MatchedBar)
          THEN /\ Len(trades') = Len(trades) + 1
               /\ LastTrade(trades').id = Matched.id
               /\ LastTrade(trades').price = ClaimFillPrice(Matched, MatchedBar)
               /\ orders'[IndexOf(orders', Matched.id)].status = "Filled"
          ELSE /\ trades' = trades
               /\ orders'[IndexOf(orders', Matched.id)].status # "Filled"
      ]_vars

\* C2 witness: a limit buy that rested was filled at its limit, below the open.
C2_Witness ==
    /\ pc = "on_order"
    /\ cur[1].kind = "fill"
    /\ cur[1].orig_status = "Pending"
    /\ LET o == orders[IndexOf(orders, cur[1].id)] IN
       /\ o.type_ = "Limit" /\ o.side = "Buy"
       /\ LastTrade(trades).price = Unwrap(o.price)
       /\ Unwrap(o.price) < Row(o.code).open

\* the accounting of the fill that appended trade t, against the state before
ClaimFillAccounting(t) ==
    LET c == t.code
        s == t.size
        p == t.price
        f == t.fee
        e == Bucket(positions[c], t.direction).price
        q == Bucket(positions[c], t.direction).size
        after == Bucket(positions'[c], t.direction)
        otherDir == IF t.direction = "Long" THEN "Short" ELSE "Long"
    IN  /\ IF IsOpen(t.direction, t.side)
           THEN /\ after.size = q + s
                /\ after.price = IF q = 0 THEN p ELSE DecDiv(e * q + p * s, q + s)
                /\ cash' = cash - f
           ELSE /\ t.rpl = IF t.direction = "Long" THEN (p - e) * s - f
                                                   ELSE (e - p) * s - f
                /\ after.size = q - s
                /\ after.price = e
                /\ cash' = cash + t.rpl
        /\ Bucket(positions'[c], otherDir) = Bucket(positions[c], otherDir)
        /\ positions'[c].lever = positions[c].lever
        /\ \A x \in CodeSet \ {c} : positions'[x] = positions[x]

\* a long opened and closed with zero fees and slippage, and nothing else traded
LongRoundTrip ==
    /\ Len(trades) = 2
    /\ cfg.maker_fee_rate = 0 /\ cfg.taker_fee_rate = 0 /\ cfg.slippage = 0
    /\ trades[1].direction = "Long" /\ trades[1].side = "Buy"
    /\ trades[2].direction = "Long" /\ trades[2].side = "Sell"
    /\ trades[2].code = trades[1].code
    /\ trades[2].size = trades[1].size

\* C3: a fill updates exactly one direction bucket of the order's contract: an
\* opening fill adds the size, averages the entry price by volume and lowers
\* cash by the fee; a closing fill records rpl, subtracts the size, keeps the
\* entry price and raises cash by rpl; nothing else of the positions changes.
\* With zero fees and slippage a long opened at p1 and closed at p2 leaves two
\* trades and a cash change of (p2 - p1) * size.
C3_FillAccounting ==
    /\ [][Len(trades') = Len(trades) + 1 => ClaimFillAccounting(LastTrade(trades'))]_vars
    /\ [](LongRoundTrip =>
            cash = cfg.init_cash + (trades[2].price - trades[1].price) * trades[1].size)

\* C3 witness: the long round trip happened, at two different prices.
C3_Witness ==
    /\ LongRoundTrip
    /\ trades[2].price # trades[1].price
    /\ cash # cfg.init_cash

\* C4 (as claimed): the fee of every fill is price * size * maker rate when an
\* earlier cross processed the order without filling it, and price * size *
\* taker rate otherwise, whatever the order's status when it is matched.
C4_MakerIfRested ==
    [][Len(trades') = Len(trades) + 1 =>
          LET t == LastTrade(trades')
          IN  t.fee = t.price * t.size *
                        (IF t.id \in rested THEN cfg.maker_fee_rate
                                            ELSE cfg.taker_fee_rate)
      ]_vars

StatusOf(os, id) == os[IndexOf(os, id)].status

ClaimTransitions ==
    { <<"New", "Pending">>, <<"New", "Filled">>, <<"Pending", "Filled">>,
      <<"New", "Canceling">>, <<"Pending", "Canceling">>,
      <<"Canceling", "Canceled">> }

\* every order keeps its status or changes it along one of the transitions ts;
\* an order enters the book as New; no order is Rejected
StatusMovesWithin(ts) ==
    orders' # orders =>
       \A i \in 1..Len(orders') :
          LET o == orders'[i] IN
          /\ o.status # "Rejected"
          /\ IF IndexOf(orders, o.id) = 0
             THEN o.status = "New"
             ELSE \/ StatusOf(orders, o.id) = o.status
                  \/ <<StatusOf(orders, o.id), o.status>> \in ts

\* C5 (as claimed): an order's status only changes along New -> Pending,
\* New -> Filled, Pending -> Filled, New/Pending -> Canceling and
\* Canceling -> Canceled; no order is ever Rejected.
C5_Transitions == [][StatusMovesWithin(ClaimTransitions)]_vars

\* C5 (amended): the transitions above and Canceling -> Filled are the only
\* ones: an order whose cancellation was requested is still matched by the next
\* cross and is canceled only if it does not fill.  No order is ever Rejected.
C5_TransitionsAmended ==
    [][StatusMovesWithin(ClaimTransitions \cup {<<"Canceling", "Filled">>})]_vars

\* C5 witness: an order matched while Canceling has just been filled.
C5_Witness ==
    /\ pc = "on_order"
    /\ cur[1].kind = "fill"
    /\ cur[1].orig_status = "Canceling"
    /\ StatusOf(orders, cur[1].id) = "Filled"

\* C6 (as claimed): within one cross_order the orders are matched in the order
\* in which they were placed (ids are handed out in placement order).
C6_PlacementOrder ==
    \A i \in 1..Len(crossLog) : \A j \in 1..Len(crossLog) :
        i < j => crossLog[i] < crossLog[j]

Directions == {"Long", "Short"}

\* the unfilled size of the live closing orders of a bucket
ClaimOpenClosing(code, direction) ==
    LET idx == { i \in 1..Len(orders) :
                    /\ orders[i].code = code
                    /\ orders[i].direction = direction
                    /\ IsClose(orders[i].direction, orders[i].side)
                    /\ orders[i].status \in {"New", "Pending", "Canceling"} }
        RECURSIVE Sum(_)
        Sum(S) == IF S = {} THEN 0
                  ELSE LET i == CHOOSE x \in S : TRUE
                       IN  orders[i].size - orders[i].filled + Sum(S \ {i})
    IN  Sum(idx)

InCross == pc \in {"cross", "on_order", "on_position"}
HasId(os, id) == IndexOf(os, id) # 0
NoneWithStatus(st) == \A i \in 1..Len(orders) : orders[i].status \notin st

\* the steps of one fill: the trade, on_order, on_position, the removal
ClaimFillSequence ==
    /\ Len(trades') >= Len(trades)
    /\ SubSeq(trades', 1, Len(trades)) = trades
    /\ Len(trades') <= Len(trades) + 1
    /\ Len(trades') = Len(trades) + 1 =>
          LET t == LastTrade(trades')
              o == orders'[IndexOf(orders', t.id)]
          IN  /\ pc = "cross" /\ queue # <<>>
              /\ t.id = Matched.id /\ t.size = Matched.size /\ t.code = Matched.code
              /\ t.price = Match(Matched, MatchedBar).fill_price
              /\ \A i \in 1..Len(trades) : trades[i].id # t.id
              /\ HasId(orders', t.id)
              /\ o.status = "Filled" /\ o.filled = o.size
              /\ pc' = "on_order" /\ cur' # <<>> /\ cur'[1].id = t.id
    /\ (pc = "on_order" /\ cur[1].kind = "fill") =>
          /\ pc' \in {"on_order", "on_position", "aborted"}
          /\ HasId(orders', cur[1].id)
          /\ StatusOf(orders', cur[1].id) = "Filled"
    /\ pc = "on_position" =>
          /\ pc' \in {"on_position", "cross", "aborted"}
          /\ pc' = "cross" <=> ~HasId(orders', cur[1].id)
          /\ pc' # "cross" => StatusOf(orders', cur[1].id) = "Filled"
    /\ (pc' = "on_position" /\ pc # "on_position") => pc = "on_order" /\ cur[1].kind = "fill"

\* C8 (as claimed): every fill appends one trade of the order, emits on_order
\* and then on_position with the order still in orders as Filled, and removes
\* the order; whenever cross_order has returned, orders holds no Filled or
\* Canceled order; trades are never changed or removed.
C8_FillSequence ==
    /\ [][ClaimFillSequence]_vars
    /\ [](~InCross => NoneWithStatus({"Filled", "Canceled"}))

\* C8 (amended): as above, but orders is free of Filled and Canceled orders
\* only when cross_order has returned Ok: when on_order or on_position returns
\* an error, cross_order returns it at once and the order it was reporting
\* stays in orders.
C8_FillSequenceAmended ==
    /\ [][ClaimFillSequence]_vars
    /\ []((~InCross /\ cur = <<>>) => NoneWithStatus({"Filled", "Canceled"}))

\* C8 witness: cross_order has returned after filling and removing an order.
C8_Witness ==
    /\ pc = "on_signal"
    /\ trades # <<>>
    /\ \E k \in 1..Len(crossLog) : crossLog[k] = LastTrade(trades).id
    /\ ~HasId(orders, LastTrade(trades).id)

\* the no-fill branch of a cross step, and the on_order it emits
ClaimNoFill ==
    /\ (pc = "cross" /\ queue # <<>> /\ Len(trades') = Len(trades)) =>
          LET id == Matched.id
              st == StatusOf(orders, id)
          IN  /\ HasId(orders', id)
              /\ trades' = trades
              /\ st = "Canceling" =>
                    /\ StatusOf(orders', id) = "Canceled"
                    /\ pc' = "on_order"
                    /\ cur' = <<[id |-> id, code |-> Matched.code, kind |-> "cancel",
                                 orig_status |-> Matched.status]>>
              /\ st = "New" => StatusOf(orders', id) = "Pending" /\ pc' = "cross"
              /\ st = "Pending" => StatusOf(orders', id) = "Pending" /\ pc' = "cross"
    /\ (pc = "on_order" /\ cur[1].kind = "cancel") =>
          /\ trades' = trades
          /\ pc' \in {"on_order", "cross", "aborted"}
          /\ pc' = "cross" <=> ~HasId(orders', cur[1].id)
          /\ pc' # "cross" => StatusOf(orders', cur[1].id) = "Canceled"
          /\ pc' = "cross" => \A k \in 1..Len(queue') : queue'[k].id # cur[1].id

\* no Canceled order is left in orders and no canceled order has a trade
CanceledGone == NoneWithStatus({"Canceled"})

\* C9 (as claimed): a Canceling order that a cross does not fill becomes
\* Canceled, gets one on_order in which it is visible as Canceled, gets no
\* trade and is removed from orders; an unfilled New order becomes Pending and
\* an unfilled Pending order stays Pending, without a callback.
C9_NoFill ==
    /\ [][ClaimNoFill]_vars
    /\ [](~(pc = "on_order" /\ cur # <<>> /\ cur[1].kind = "cancel") => CanceledGone)

\* C9 (amended): as above, but the Canceled order is removed only when its
\* on_order returns Ok: when that on_order returns an error, cross_order
\* returns it at once and the Canceled order stays in orders.
C9_NoFillAmended ==
    /\ [][ClaimNoFill]_vars
    /\ []((cur = <<>>) => CanceledGone)

\* C9 witness: the order matched last was canceled, reported and removed.
C9_Witness ==
    /\ pc = "cross"
    /\ cur = <<>>
    /\ crossLog # <<>>
    /\ ~HasId(orders, crossLog[Len(crossLog)])
    /\ \A k \in 1..Len(trades) : trades[k].id # crossLog[Len(crossLog)]

Elapsed == curr_time - cfg.start_time

\* C10: when no callback fails, run makes one step per minute of [start, end)
\* and then terminates with curr_time = end: at the loop boundary bar_idx - H
\* is the number of minutes elapsed and the equity history has one entry more
\* than that, every row read at bar_idx is loaded, and run ends.
C10_OneStepPerMinute ==
    /\ [](/\ error # "bars"
          /\ pc = "loop" =>
                /\ bar_idx - cfg.history_bar_len = Elapsed
                /\ Len(history_equities) = 1 + Elapsed
                /\ curr_time <= cfg.end_time
          /\ pc \in {"new", "cross"} => AllRowsLoaded
          /\ pc = "done" =>
                /\ curr_time = cfg.end_time
                /\ Len(history_equities) = 1 + (cfg.end_time - cfg.start_time))
    /\ [][pc = "cross" /\ pc' = "on_signal" =>
             /\ curr_time < cfg.end_time
             /\ curr_time' = curr_time + 1 /\ bar_idx' = bar_idx + 1]_vars
    /\ <>(pc = "done" \/ error = "callback")

\* C10 witness: run has ended after two steps.
C10_Witness ==
    /\ pc = "done"
    /\ Elapsed = 2
    /\ Len(history_equities) = 3

---------------------------------------------------------------------------

TimerPcs == {"on_timer_secondly", "on_timer_minutely", "on_timer_hourly",
             "on_timer_daily"}

\* a callback is invoked by this step: run moves to a callback position, or
\* stays in on_bar for the next contract
Invoked(name) == pc' = name /\ (pc # name \/ cbIdx' # cbIdx)

\* run moves on: a callback returned, or a step of run between callbacks
Returns == pc' # pc \/ cbIdx' # cbIdx

\* where the claim lets run go from each position
ClaimSuccessor ==
    /\ pc = "on_start" => pc' = "on_bar"
    /\ pc = "on_bar" /\ pc' # "on_bar" => pc' = "loop" /\ cbIdx = Len(Codes)
    /\ pc = "loop" => pc' \in {"cross", "on_stop"}
    /\ pc = "cross" => pc' \in {"on_order", "on_signal"}
    /\ pc = "on_order" => pc' \in {"on_position", "cross"}
    /\ pc = "on_position" => pc' = "cross"
    /\ pc = "on_signal" => pc' = "on_timer_secondly"
    /\ pc \in TimerPcs => pc' \in TimerPcs \cup {"loop"}
    /\ pc = "on_stop" => pc' = "done"

\* what the claim allows a step of an error-free run to be
ClaimCallbackOrder ==
    /\ pc \notin {"done", "aborted"}
    /\ pc' # "new"
    /\ Returns => ClaimSuccessor
    /\ Invoked("on_start") =>
          pc = "new" /\ symbols' = Refreshed /\ Len(history_equities') = 1
    /\ Invoked("on_bar") =>
          /\ curr_time = cfg.start_time /\ bar_idx = cfg.history_bar_len
          /\ Len(history_equities) = 1
          /\ \/ pc = "on_start" /\ cbIdx' = 1
             \/ pc = "on_bar" /\ cbIdx' = cbIdx + 1 /\ cbIdx' <= Len(Codes)
    /\ pc = "loop" /\ pc' = "cross" =>
          curr_time < cfg.end_time /\ symbols' = Refreshed /\ UNCHANGED curr_time
    /\ Invoked("on_order") => pc = "cross" /\ UNCHANGED <<curr_time, symbols>>
    /\ Invoked("on_position") => pc = "on_order" /\ UNCHANGED <<curr_time, symbols>>
    /\ Invoked("on_signal") =>
          /\ pc = "cross"
          /\ curr_time' = curr_time + 1
          /\ history_equities' = Append(history_equities, calc_equity)
    /\ \A t \in TimerPcs : Invoked(t) => pc \in {"on_signal"} \cup TimerPcs
    /\ Invoked("on_stop") => pc = "loop" /\ ~(curr_time < cfg.end_time)
    /\ pc' = "done" => pc = "on_stop"

\* C11: in a run without errors on_start is called once and first, then on_bar
\* once per contract before the first step; every step refreshes the prices,
\* then emits the on_order/on_position of the cross, then advances the time and
\* appends the equity, then calls on_signal, then the timers; on_stop is called
\* once after the last step and nothing follows it; on_bar is never called
\* from the loop.  Unless a callback fails, the run reaches its end.
C11_CallbackOrder ==
    /\ [][pc' # "aborted" => ClaimCallbackOrder]_vars
    /\ <>(pc = "done" \/ error # "none")

\* C11 witness: a run that emitted the callbacks of a fill has returned from
\* on_stop.
C11_Witness ==
    /\ pc = "done"
    /\ trades # <<>>
    /\ Len(history_equities) = 3

---------------------------------------------------------------------------

\* C13: a rejected place_order changes neither cash, positions, the order book,
\* the trade ledger nor anything else the engine keeps (the id generator and
\* the position of run included), so every later place_order and cancel_order
\* is decided as before the call and run goes on from where it was.
C13_RejectedFrame ==
    [][(Trading /\ result' = "err") =>
          \A req \in RequestsOf(env.requests) :
              (~PlaceOrderOk(req) /\ PlaceOrder(req)) =>
                  /\ UNCHANGED <<pc, cfg, cash, symbols, positions, orders, trades,
                                 history_equities, bar_idx, curr_time, queue, cur,
                                 cbIdx, nextId, crossLog, rested, error>>
      ]_vars

\* C13 witness: after a fill, a call made from on_signal has been rejected and
\* run is still inside on_signal.
C13_Witness ==
    /\ pc = "on_signal"
    /\ result = "err"
    /\ trades # <<>>
    /\ error = "none"
    /\ \E req \in WellFormed : req.code \in CodeSet /\ ~PlaceOrderOk(req)

---------------------------------------------------------------------------

\* C14: the report of a completed run has ret >= -1 and 0 <= mdd <= 1.
C14_ReportBounds ==
    pc = "done" =>
        /\ RatLeq(Rat(-1, 1), Report.ret)
        /\ RatLeq(Rat(0, 1), Report.mdd)
        /\ RatLeq(Report.mdd, Rat(1, 1))

---------------------------------------------------------------------------

\* C15: with gas_max > 0 the counter only ever moves up by one, on a tick taken
\* while it is at most gas_max; a tick taken while it is greater than gas_max
\* aborts the running callback with the gas error and a tick taken while it is
\* not does not; the counter is never reset and never exceeds gas_max + 1.
\* With gas_max = 0 the counter stays 0 and no callback is aborted for gas.
C15_GasMeter ==
    /\ [][/\ gas_usage' # gas_usage =>
                /\ rt = "loaded" /\ gas_max > 0 /\ InCallback
                /\ gas_usage' = gas_usage + 1
                /\ gas_usage <= gas_max
                /\ UNCHANGED <<pc, error>>
          /\ (error' = "gas usage exceeds the limit" /\ error = "none") =>
                /\ gas_max > 0 /\ InCallback
                /\ gas_usage > gas_max
                /\ pc' = "aborted"
          /\ OnProgress =>
                IF gas_max > 0 /\ gas_usage > gas_max
                THEN error' = "gas usage exceeds the limit"
                ELSE UNCHANGED <<pc, error>>
                     /\ (gas_max > 0 => gas_usage' = gas_usage + 1)
         ]_vars
    /\ [](gas_usage <= gas_max + 1)
    /\ [](gas_max = 0 => gas_usage = 0 /\ error # "gas usage exceeds the limit")

\* C15 witness: the meter aborted a callback of a later step at gas_max + 1,
\* after ticks spread over several callbacks.
C15_Witness ==
    /\ error = "gas usage exceeds the limit"
    /\ gas_max = MaxGas
    /\ gas_usage = gas_max + 1
    /\ curr_time > cfg.start_time

\* C16: a script that lacks one of the callbacks is rejected by
\* ScriptStrategy::new: it is never loaded, and no step of run is taken with it.
C16_MissingRejectedAtLoad ==
    (rt # "unloaded" /\ ~(ScriptFns \subseteq script.fns)) =>
        rt = "rejected" /\ pc = "new"

---------------------------------------------------------------------------

ThinkingKinds == {"think", "think_end"}

\* C17: when a chat turn completes, n_cur is its value before the turn plus
\* the prompt tokens, plus the tokens generated after </think>, plus the tokens
\* of "<|im_end|>\n", and no cell of the thinking segment is left in the cache.
C17_TurnAccounting ==
    [][(chat_pc = "finishing" /\ chat_pc' = "idle") =>
          /\ n_cur' = turn.before + turn.n_tokens + turn.n_answer + Len(ImEnd)
          /\ \A c \in kv' : c.kind \notin ThinkingKinds
      ]_vars

\* the kinds of the cells a step adds to the cache
Added == {c.kind : c \in kv' \ kv}

\* C18: the turn that encodes the first prompt after construction or reset,
\* and no other, encodes BOS and the system prompt (when there is one) ahead of
\* the user message and the assistant header; a later turn encodes the user
\* message and the header alone.  reset empties the cache and leaves n_cur = 0
\* and the first-turn state; while no turn has begun since, the session is in
\* that state.
C18_FirstTurnPrompt ==
    /\ [][/\ (turn'.index = turn.index + 1 /\ chat_pc' = "generating") =>
                /\ ("bos" \in Added) <=> kv = {}
                /\ ("sys" \in Added) <=> (kv = {} /\ agent_cfg.system_prompt)
                /\ {"user", "hdr"} \subseteq Added
                /\ Added \subseteq {"bos", "sys", "user", "hdr"}
          /\ Reset => kv' = {} /\ n_cur' = 0 /\ FirstTurn' /\ turn'.index = 0
         ]_vars
    /\ [](turn.index = 0 => FirstTurn /\ n_cur = 0 /\ kv = {})

\* C19: no decode is issued for a position beyond n_ctx - 1 and no turn fails
\* for it (a turn fails on a prompt that cannot be tokenized only): generation
\* stops at the bound and the turn completes.
C19_WithinContext ==
    /\ chat_pc = "failed" => turn.stopped = "tokenize"
    /\ \A c \in kv : c.pos <= agent_cfg.ctx_len - 1

\* C20: chat_with_tools generates at most max_tool_rounds times, none at all
\* when max_tool_rounds = 0; when the head of the loop finds the cap reached it
\* reports it and returns the empty string; and every call returns.
C20_ToolRounds ==
    /\ [](tool.generations <= agent_cfg.max_tool_rounds)
    /\ [](tool.rounds = tool.generations)
    /\ [](tool.error_reported =>
              /\ tool.pc = "returned"
              /\ tool.full_response = ""
              /\ tool.rounds = agent_cfg.max_tool_rounds)
    /\ [][(tool.pc = "loop" /\ tool.rounds >= agent_cfg.max_tool_rounds) =>
              /\ tool'.pc = "returned" /\ tool'.error_reported
              /\ UNCHANGED <<kv, n_cur>>]_vars
    /\ (tool.pc \in {"loop", "generating"}) ~> (tool.pc \in {"returned", "failed"})

\* C20 witness: every round produced tool results until the cap was reached.
C20_Witness ==
    /\ tool.pc = "returned"
    /\ tool.error_reported
    /\ tool.rounds = agent_cfg.max_tool_rounds
    /\ tool.rounds >= 2

---------------------------------------------------------------------------

\* the JSON texts of the Hermes blocks of a text whose JSON is a valid call,
\* from left to right
RECURSIVE ClaimBlocks(_, _)
ClaimBlocks(output, i) ==
    IF i + 2 > Len(output) THEN <<>>
    ELSE IF output[i] = "<tool_call>" /\ output[i + 2] = "</tool_call>"
    THEN (IF output[i + 1] = "{call}" THEN <<output[i + 1]>> ELSE <<>>)
         \o ClaimBlocks(output, i + 3)
    ELSE ClaimBlocks(output, i + 1)

\* C24: parse_tool_calls returns one call for every <tool_call> block whose
\* JSON is valid, in the order of the blocks, and skips the other blocks.
C24_HermesBlocks ==
    (parse.pc = "parsed" /\ Contains(parse.output, "<tool_call>")) =>
        Len(parse.calls) = Len(ClaimBlocks(parse.output, 1))

\* the call the ReAct rule describes: the name is the trimmed rest of the last
\* Action: line, the arguments are the text between the following Action
\* Input: and the first Observation: or Thought: line after it
ClaimReActCall(output) ==
    LET a == RFind(output, "Action:")
        nl == Find(output, "\n", a + 1)
        line_end == IF nl # 0 THEN nl ELSE Len(output) + 1
        inp == Find(output, "Action Input:", line_end)
        obs == FindLine(output, "Observation:", inp + 1)
        tht == FindLine(output, "Thought:", inp + 1)
        stop == IF obs # 0 /\ tht # 0 THEN Min(obs, tht)
                ELSE IF obs # 0 THEN obs
                ELSE IF tht # 0 THEN tht
                ELSE Len(output) + 1
        text == Trim(SubSeq(output, inp + 1, stop - 1))
    IN  [name |-> Trim(SubSeq(output, a + 1, line_end - 1)),
         arguments |-> IF text \in {<<"{}">>, <<"{call}">>, <<"42">>}
                       THEN [kind |-> "json", text |-> text]
                       ELSE [kind |-> "wrapped", text |-> text]]

\* C25: in the ReAct dialect parse_tool_calls returns at most one call, and
\* the call it returns is the one of the last Action: line, with the input
\* taken as JSON when it parses and wrapped as {"input": text} otherwise.
C25_ReActCall ==
    parse.pc = "parsed" =>
        /\ Len(parse.calls) <= 1
        /\ parse.calls # <<>> => parse.calls[1] = ClaimReActCall(parse.output)

\* C26: whatever the results hold, the text format_tool_responses makes of
\* them parses to no tool call.
C26_ResponsesAreNoCalls ==
    (parse.pc = "parsed" /\ parse.results # <<>>) => parse.calls = <<>>

---------------------------------------------------------------------------

\* the methods written to a server, in order
Methods(s) == [i \in 1..Len(wire[s]) |-> wire[s][i].method]

IsSetupMethod(method) == method # "tools/call"

ClaimHandshake == <<"initialize", "notifications/initialized", "tools/list">>

\* some tool is registered for the server
Registered(s) == \E p \in mcp.tool_to_server : p[2] = s

\* C27: a server is sent initialize, notifications/initialized and tools/list,
\* each once and in this order; its tools are registered and tools/call is
\* sent to it only after these three.
C27_HandshakeOnce ==
    \A s \in ServerNames :
        LET setup == SelectSeq(Methods(s), IsSetupMethod) IN
        /\ Len(setup) <= Len(ClaimHandshake)
        /\ setup = SubSeq(ClaimHandshake, 1, Len(setup))
        /\ (Registered(s) \/ Len(setup) < Len(Methods(s))) =>
               /\ Len(Methods(s)) >= Len(ClaimHandshake)
               /\ SubSeq(Methods(s), 1, Len(ClaimHandshake)) = ClaimHandshake

\* C28: once notifications/initialized is sent, setup goes on to tools/list
\* whatever the server answers, and also when it answers nothing.
C28_NotificationIgnored ==
    [][(mcp.pc = "initialized" /\ mcp'.pc # "initialized") =>
           mcp'.pc = "list_tools"]_vars

\* call_tool has returned in this step
CallReturned == mcp'.calls = mcp.calls + 1 /\ mcp'.pc # "blocked"

\* C29: a call of the qualified name of a tool that a connected server
\* advertises is sent to that server under the tool's MCP name.
C29_QualifiedRoundTrip ==
    [][CallReturned =>
          \A s \in mcp.connections : \A i \in 1..Len(Advertised(s)) :
              Unwrap(mcp'.last_call).name = Qualified(s, Advertised(s)[i]) =>
                  /\ Unwrap(mcp'.last_call).server = s
                  /\ Unwrap(mcp'.last_call).sent = Advertised(s)[i]
                  /\ wire' = [wire EXCEPT ![s] =
                                 Append(@, Request("tools/call", Advertised(s)[i]))]
      ]_vars

\* the elements of a sequence
Range(seq) == {seq[i] : i \in 1..Len(seq)}

RECURSIVE ClaimToolCount(_)
ClaimToolCount(servers) ==
    IF servers = {} THEN 0
    ELSE LET s == CHOOSE x \in servers : TRUE
         IN  Len(Advertised(s)) + ClaimToolCount(servers \ {s})

\* C30: when init has returned, it has returned Ok with exactly the tools of
\* the servers that connected; nothing is registered for a server that failed,
\* and a call of a failed server's tool returns "Tool not found" without a
\* request to any server.
C30_FailureIsolation ==
    /\ [](mcp.pc = "ready" =>
            LET connected == mcp.config \ mcp.failed IN
            /\ mcp.returned = "ok"
            /\ Range(mcp.tools) =
                   UNION {Range(ConvertMcpTools(s, Advertised(s))) : s \in connected}
            /\ Len(mcp.tools) = ClaimToolCount(connected)
            /\ \A s \in mcp.failed : ~Registered(s) /\ s \notin mcp.connections)
    /\ [][(CallReturned /\ mcp.pc = "ready") =>
            \A s \in mcp.failed : \A i \in 1..Len(Advertised(s)) :
                Unwrap(mcp'.last_call).name = Qualified(s, Advertised(s)[i]) =>
                    /\ Unwrap(mcp'.last_call).text = "Tool not found"
                    /\ wire' = wire
         ]_vars


\* the final content of a ReAct response: the text after "Final Answer:"
ClaimFinalContent(output) ==
    Trim(SubSeq(output, Find(output, "Final Answer:", 1) + 1, Len(output)))

\* chat_with_tools returned the response of a round without a tool call
ReturnedWithoutCall ==
    /\ tool.pc = "returned"
    /\ ~tool.error_reported
    /\ stream.script = <<>>
    /\ ~HasToolCall(stream.round_response)

\* C21: when the round's response holds no tool call, chat_with_tools returns
\* the extracted final content, the text after "Final Answer:" of a ReAct
\* response, and not the response as generated.
C21_FinalContent ==
    (ReturnedWithoutCall /\ Contains(stream.round_response, "Final Answer:")) =>
        stream.full_response = ClaimFinalContent(stream.round_response)

\* the MCP call of the round failed and its result is the next message
FedBackError == Contains(stream.current_message, "error")

\* the ToolResult the claim names for a failed call
ClaimErrorResult(name, message) ==
    [name |-> name, content |-> [key |-> "error", text |-> <<message>>]]

\* the round ends in this step and its call fails, given this reply
CallFails(reply) ==
    /\ tool.pc = "generating"
    /\ tool'.pc \in {"loop", "returned"}
    /\ HasToolCall(stream.round_response)
    /\ ParseToolCalls(stream.round_response) # <<>>
    /\ mcp'.calls = mcp.calls + 1
    /\ LET r == CallResult(mcp, ParseToolCalls(stream.round_response)[1].name, reply)
       IN  ~r.ok /\ mcp'.last_call = Some(r)

\* the failed call becomes the error result, and the result the next message
ErrorFedBack ==
    \A reply \in Replies :
        CallFails(reply) =>
            LET name == ParseToolCalls(stream.round_response)[1].name
                message == CallResult(mcp, name, reply).text
            IN  /\ tool'.pc = "loop"
                /\ stream'.current_message =
                       FormatToolResponses(<<ClaimErrorResult(name, message)>>)

\* the loop goes on from its head with the error result as the message
LoopHeadLeft == tool.pc = "loop" /\ FedBackError /\ tool'.pc # "loop"

\* C22 as claimed: a failed MCP call becomes a ToolResult with the call's name
\* and {error: message}, the result is the next message, and another round
\* runs.
C22_ErrorFedBack ==
    [][/\ ErrorFedBack
       /\ LoopHeadLeft => tool'.pc = "generating"]_vars

\* C22 amended: a failed MCP call becomes a ToolResult with the call's name
\* and {error: message}, the result is the next message, and another round
\* runs unless max_tool_rounds rounds have run: then the loop ends at the cap.
C22_ErrorFedBackAmended ==
    [][/\ ErrorFedBack
       /\ LoopHeadLeft =>
             IF tool.rounds < agent_cfg.max_tool_rounds
             THEN tool'.pc = "generating" /\ tool'.rounds = tool.rounds + 1
             ELSE tool'.pc = "returned" /\ tool'.error_reported]_vars

\* C22 witness: the call of a tool whose server was shut down failed, and the
\* round after it generates from the error result.
C22_Witness ==
    /\ tool.pc = "generating"
    /\ tool.rounds = 2
    /\ FedBackError
    /\ Contains(stream.current_message, "Server not connected")

\* the pieces of the round's tool call, in the ReAct dialect of the parser
IsCallPiece(lex) == lex \in {"Action:", "Action Input:"}

\* C23: no part of a tool call of the parser's dialect is delivered to the
\* caller as a Token event.
C23_CallNotStreamed ==
    ParseToolCalls(stream.round_response) # <<>> =>
        \A i \in 1..Len(stream.tokens) :
            \A j \in 1..Len(stream.tokens[i]) : ~IsCallPiece(stream.tokens[i][j])


\* what the trades add to the initial cash: rpl, and for an opening trade the
\* fee taken off
RECURSIVE ClaimLedger(_)
ClaimLedger(ts) ==
    IF ts = <<>> THEN 0
    ELSE LET t == Head(ts) IN
         t.rpl - (IF IsOpen(t.direction, t.side) THEN t.fee ELSE 0)
         + ClaimLedger(Tail(ts))

\* C34: cash is the initial cash plus the rpl of all trades minus the fees of
\* the opening trades; so cash moves only when a trade is appended, never in
\* place_order, cancel_order, set_lever or a price refresh.
C34_CashLedger == cash = cfg.init_cash + ClaimLedger(trades)

\* C34 witness: an opening trade paid a fee, a closing trade realised a profit
\* or loss, and orders were placed in between.
C34_Witness ==
    /\ Len(trades) >= 2
    /\ \E i, j \in 1..Len(trades) :
          /\ IsOpen(trades[i].direction, trades[i].side) /\ trades[i].fee > 0
          /\ IsClose(trades[j].direction, trades[j].side) /\ trades[j].rpl # 0
    /\ Len(orders) >= 1


\* the positions of sequence 0 that hold an entry
Occupied == {c.pos : c \in kv}

C40_FailedTurnKeepsState ==
    [][(turn'.index = turn.index + 1 /\ chat_pc' = "failed") =>
          /\ n_cur' = n_cur
          /\ kv' = kv
          /\ FirstTurn' <=> FirstTurn
      ]_vars

\* the text of the round that follows its thinking segment
AfterThinking ==
    SubSeq(stream.round_response, Len(stream.thinking) + 1,
           Len(stream.round_response))

\* C35: when chat_with_tools hands a call to the executor, the call is one
\* that the text after the thinking segment holds: the calls parsed from the
\* round are the calls of that text, and text inside the thinking segment
\* alone causes no execution.
C35_ThinkingNeverDispatches ==
    [][(tool.pc = "generating" /\ mcp'.calls = mcp.calls + 1) =>
          /\ HasToolCall(AfterThinking)
          /\ ParseToolCalls(stream.round_response) = ParseToolCalls(AfterThinking)
      ]_vars

\* C39: no interleaving of init, call_tool, get_tools and shutdown deadlocks
\* on the three mutexes: when the servers answer the requests they are sent,
\* every call a thread has begun returns.
C39_EveryCallReturns ==
    \A t \in Threads : (mcp.th[t].pc # "idle") ~> (mcp.th[t].pc = "idle")

\* C39 witness: a thread inside init holds connections and tool_to_server and
\* waits for a server, while the other thread, in call_tool, waits for
\* tool_to_server.
C39_Witness ==
    \E t, u \in Threads :
        /\ mcp.th[t].op = "init" /\ mcp.th[t].pc = "recv"
        /\ mcp.lock["connections"] = t /\ mcp.lock["tool_to_server"] = t
        /\ mcp.th[u].op = "call_tool" /\ mcp.th[u].pc = "call_t2s"
        /\ mcp.tool_to_server # {}

\* C31: while a call_tool of one thread waits for the reply of its server, a
\* call_tool of another thread for a tool of a different, connected server
\* can take its connection and send its request.
C31_DifferentServersConcurrent ==
    \A t, u \in Threads :
        (/\ mcp.th[t].op = "call_tool" /\ mcp.th[t].pc = "recv"
         /\ wire[mcp.th[t].child].stdout = <<>>
         /\ mcp.th[u].op = "call_tool" /\ mcp.th[u].pc = "call_conns"
         /\ mcp.th[u].server # mcp.th[t].server
         /\ \E p \in mcp.connections : p[1] = mcp.th[u].server)
        => ENABLED CallToolLock(u)

\* C37: the line send_request takes as the response of a request carries the
\* id of that request.
C37_ResponseIdMatches ==
    [][\A t \in Threads :
          (mcp.th[t].pc = "recv" /\ mcp'.th[t].pc # "recv") =>
              Head(wire[mcp.th[t].child].stdout).id =
                  Some(wire[mcp.th[t].child].request_id)
      ]_vars

\* C32: on one connection at most one request is outstanding: a request
\* line is written only when the response line of every earlier request on
\* the connection has been read.
C32_OneOutstanding ==
    \A c \in 1..Len(wire) : Cardinality(wire[c].unread) <= 1

\* the names of the cached tools list and the keys of tool_to_server
ToolNames == {mcp.tools[i] : i \in 1..Len(mcp.tools)}
RoutedNames == {p[1] : p \in mcp.tool_to_server}

\* C38: whenever no call of the manager is in progress, the names of the
\* cached tools list are the keys of tool_to_server, and every server that
\* tool_to_server names has a connection.
C38_TablesAgree ==
    (\A t \in Threads : mcp.th[t].pc = "idle") =>
        /\ ToolNames = RoutedNames
        /\ \A p \in mcp.tool_to_server :
              \E q \in mcp.connections : q[1] = p[2]

\* the connections that exist: those of the table, and the one an init in
\* progress has made and not yet inserted or dropped
Owned ==
    {p[2] : p \in mcp.connections}
        \cup {mcp.th[t].child : t \in {u \in Threads : mcp.th[u].op = "init"}}

\* C33: no child outlives its connection: a running child is the child of a
\* connection that exists, and a step that drops a connection (shutdown, a
\* failed handshake, an insert under a name that has one) leaves its child
\* killed; after shutdown the table is empty and no child is running.
C33_NoChildOutlives ==
    /\ [](\A c \in 1..Len(wire) : wire[c].running => c \in Owned)
    /\ [][\A t \in Threads :
              (mcp.th[t].pc = "shutdown" /\ mcp'.th[t].pc = "idle") =>
                  /\ mcp'.connections = {}
                  /\ \A c \in 1..Len(wire) : ~wire'[c].running
         ]_vars

\* C33 witness: a server was connected twice and no call is in progress: the
\* child of the replaced connection is killed and the child of the connection
\* in the table runs.
C33_Witness ==
    \E c, d \in 1..Len(wire) :
        /\ c < d
        /\ wire[c].server = wire[d].server
        /\ ~wire[c].running
        /\ wire[d].running
        /\ <<wire[d].server, d>> \in mcp.connections
        /\ \A t \in Threads : mcp.th[t].pc = "idle"

====
